---- MODULE Spec2Model ----
(***************************************************************************)
(* Model of hiberman's resume path (src/hiberman/src/resume.rs) and of the *)
(* helpers it uses from src/hiberman/src/hiberutil.rs.                     *)
(*                                                                         *)
(* One conductor thread runs ResumeConductor::resume(); one optional       *)
(* worker thread runs ImageDataPreloader::preload_data().  Every call of a *)
(* collaborator that returns a Result is a step that either succeeds or    *)
(* fails; `calls` is the history of the operations the conductor executed. *)
(***************************************************************************)
EXTENDS Integers, Sequences, FiniteSets, TLC

\* ------------------------------------------------------------------ bounds
\* Sizes are counted in units of 64 MiB.
MaxImageSize == 4
\* Total RAM, in units of 64 MiB.
MaxRamSize == 10
\* Whole seconds a worker run may take (Duration::as_secs()).
MaxSecs == 1
\* Calls of stop() on one ImageDataPreloader.
MaxStops == 2

\* ------------------------------------------------------- program constants
\* resume.rs:68, the expected size of the TPM seed.
TPM_SEED_SIZE == 32
\* resume.rs:618, 128 MiB, in units of 64 MiB.
max_region_size == 2
\* One unit (64 MiB) in MiB: bytes / (1024 * 1024) of resume.rs:641.
UnitMiB == 64

\* ------------------------------------------------------------ value spaces
HibernateCookieValue == {"NoResume", "ResumeInProgress", "ResumeAborting", "EmergencyReboot"}

\* Account ids as they arrive in DBusEvent::UserAuthenticated.
AccountIds == {"Alice", "alice", "bob"}

\* str::to_lowercase on the account ids above.
to_lowercase(s) == IF s = "Alice" THEN "alice" ELSE s

\* hex::encode(Sha256(..)): distinct inputs give distinct digests, and no
\* digest is an account id.
Sha256Hex(s) == IF s = "alice" THEN "2bd806c9" ELSE IF s = "bob" THEN "81b637d8" ELSE "e3b0c442"

sanitize_username_lc(username) == Sha256Hex(to_lowercase(username))

\* A plausible slip: hashing the account id without lower-casing it.
sanitize_username_no_lc(username) == Sha256Hex(IF username = "Alice" THEN "" ELSE username)

sanitize_username(username) == sanitize_username_lc(username)

Digests == {sanitize_username(a) : a \in AccountIds}

\* Result values.  `origin` names the operation that produced the error.
Ok == [ok |-> TRUE, kind |-> "", origin |-> ""]
Err(kind, origin) == [ok |-> FALSE, kind |-> kind, origin |-> origin]
NoResult == [ok |-> FALSE, kind |-> "unset", origin |-> ""]

Min(a, b) == IF a <= b THEN a ELSE b

\* ---------------------------------------------------------------- state
VARIABLES
    \* persistent / external state
    cookie,               \* the hibernate cookie on the stateful device
    boot_cookie,          \* the cookie value this boot found (never written)
    hibernating_user,     \* content of HIBERNATING_USER_FILE, "absent" if none
    tpm_seed,             \* length of TPM_SEED_FILE, -1 if the file is absent
    hiberimage,           \* "existing" | "none" | "new": the hiberimage volumes
    locked_down,          \* lockdown_hiberimage was done
    snapdev_block,        \* block device bound to the snapshot device
    \* the conductor
    pc,                   \* position of the conductor thread
    opt_dry_run,          \* ResumeOptions handed to resume()
    dry_run,              \* self.options.dry_run
    current_user,         \* self.current_user, "None" when unset
    tried_to_resume,      \* self.tried_to_resume
    image_preloader,      \* self.image_preloader: "None" | "Some"
    user_key,             \* account whose session key was fetched, "none"
    new_hiberimage,       \* argument of the running setup_snapshot_device
    tpm_key,              \* key material handed to setup_hiberimage
    decide_result,        \* what decide_to_resume returned
    decide_in,            \* what decide_to_resume read and whether its write succeeded
    result,               \* what resume_inner returned
    ret,                  \* what resume returned
    pending_merge,        \* "none" | "held" | "merged"
    locked_memory,        \* a LockedProcessMemory token is alive
    frozen,               \* a FrozenUserspaceTicket is alive
    stop_site,            \* which caller of stop() is running
    calls,                \* history of executed operations
    \* the preloader worker
    w_pc,                 \* position of the worker thread
    w_max,                \* max_preload_bytes
    w_sizes,              \* image_size and ram_size that preload_hiberimage_data read
    w_bytes,              \* local bytes_preloaded
    w_region,             \* region_size of the region in flight
    w_regions,            \* regions mapped so far, <<offset, size>>
    w_result,             \* the thread's result: "none" | "ok" | "err" | "panic"
    chan,                 \* messages in the stop channel (capacity 1)
    handle,               \* ImageDataPreloader.handle: "None" | "Some"
    joins,                \* number of joins of the worker thread
    stats,                \* PreloadStats under the mutex
    poisoned              \* the stats mutex is poisoned

persistVars == <<cookie, boot_cookie, hibernating_user, tpm_seed, hiberimage, locked_down, snapdev_block>>
condVars == <<pc, opt_dry_run, dry_run, current_user, tried_to_resume, image_preloader,
              user_key, new_hiberimage, tpm_key, decide_result, decide_in, result, ret,
              pending_merge, locked_memory, frozen, stop_site, calls>>
workerVars == <<w_pc, w_max, w_sizes, w_bytes, w_region, w_regions, w_result>>
plVars == <<chan, handle, joins, stats, poisoned>>
vars == <<persistVars, condVars, workerVars, plVars>>

\* ResumeConductor::new() plus the state the boot finds on disk.
Init ==
    /\ cookie \in HibernateCookieValue
    /\ boot_cookie = cookie
    /\ hibernating_user \in Digests \cup {"absent"}
    /\ tpm_seed \in {-1, 0, TPM_SEED_SIZE - 1, TPM_SEED_SIZE, TPM_SEED_SIZE + 1}
    /\ hiberimage = "existing"
    /\ locked_down = FALSE
    /\ snapdev_block = "none"
    /\ pc = "resume"
    /\ opt_dry_run \in BOOLEAN
    /\ dry_run = FALSE
    /\ current_user = "None"
    /\ tried_to_resume = FALSE
    /\ image_preloader = "None"
    /\ user_key = "none"
    /\ new_hiberimage = FALSE
    /\ tpm_key = -1
    /\ decide_result = NoResult
    /\ decide_in = [cookie |-> "unread", hib_ok |-> FALSE, write_ok |-> FALSE]
    /\ result = NoResult
    /\ ret = NoResult
    /\ pending_merge = "none"
    /\ locked_memory = FALSE
    /\ frozen = FALSE
    /\ stop_site = "none"
    /\ calls = <<>>
    /\ w_pc = "none"
    /\ w_max = 0
    /\ w_sizes = [image_size |-> 0, ram_size |-> 0]
    /\ w_bytes = 0
    /\ w_region = 0
    /\ w_regions = <<>>
    /\ w_result = "none"
    /\ chan = 0
    /\ handle = "None"
    /\ joins = 0
    /\ stats = [bytes_preloaded |-> 0, datarate_mbs |-> 0]
    /\ poisoned = FALSE

\* ------------------------------------------------------------- helpers
Call(c) == calls' = Append(calls, c)

Called(c) == \E i \in 1..Len(calls) : calls[i] = c

\* Position of the first execution of c in the history, 0 if none.
First(c) == IF Called(c) THEN CHOOSE i \in 1..Len(calls) : calls[i] = c /\ \A j \in 1..(i-1) : calls[j] /= c ELSE 0

\* cookie::get_hibernate_cookie / set_hibernate_cookie: a single persisted
\* value; a write that fails leaves the old value.
set_hibernate_cookie(value, ok) == cookie' = IF ok THEN value ELSE cookie

\* A plausible slip: a memory-lock token that is not released when
\* resume_inner returns (no Drop, or a token kept beyond the call).
ReturnInner_keeps_lock(r) ==
    /\ result' = r
    /\ UNCHANGED locked_memory
    /\ frozen' = FALSE
    /\ pc' = "after_inner"

\* resume_inner returns r: its locals are dropped (the LockedProcessMemory
\* token unlocks, hiberutil.rs:255, and the FrozenUserspaceTicket thaws).
ReturnInner(r) ==
    /\ result' = r
    /\ locked_memory' = FALSE
    /\ frozen' = FALSE
    /\ pc' = "after_inner"

\* resume returns r: pending_merge goes out of scope and merges.
ReturnResume(r) ==
    /\ ret' = r
    /\ pending_merge' = IF pending_merge = "held" THEN "merged" ELSE pending_merge
    /\ pc' = "returned"

\* The conductor thread panics (an unwrap on None or on a poisoned mutex).
Panic == pc' = "panicked"

\* ---------------------------------------------------- resume(), entry
\* resume.rs:100-104
Resume_IsResumePending ==
    /\ pc = "resume"
    /\ \E read_ok \in BOOLEAN :
        IF read_ok
        THEN /\ pc' = "activate_physical_lv"
             /\ Call("is_resume_pending")
             /\ UNCHANGED <<ret, pending_merge>>
        ELSE /\ ReturnResume(Err("Io", "get_hibernate_cookie"))
             /\ Call("is_resume_pending")
    /\ UNCHANGED <<persistVars, workerVars, plVars, opt_dry_run, dry_run, current_user,
                   tried_to_resume, image_preloader, user_key, new_hiberimage, tpm_key,
                   decide_result, decide_in, result, locked_memory, frozen, stop_site>>

\* resume.rs:107-113
Resume_Prepare ==
    /\ pc = "activate_physical_lv"
    /\ \E lv_ok \in BOOLEAN, merge_ok \in BOOLEAN :
        IF ~lv_ok
        THEN /\ ReturnResume(Err("Io", "activate_physical_lv"))
             /\ Call("activate_physical_lv")
             /\ UNCHANGED dry_run
        ELSE IF ~merge_ok
        THEN /\ dry_run' = opt_dry_run
             /\ ReturnResume(Err("Io", "PendingStatefulMerge::new"))
             /\ calls' = calls \o <<"activate_physical_lv", "PendingStatefulMerge::new">>
        ELSE /\ dry_run' = opt_dry_run
             /\ pending_merge' = "held"
             /\ pc' = "resume_inner"
             /\ calls' = calls \o <<"activate_physical_lv", "PendingStatefulMerge::new",
                                    "redirect_log(BufferInMemory)">>
             /\ UNCHANGED ret
    /\ UNCHANGED <<persistVars, workerVars, plVars, opt_dry_run, current_user,
                   tried_to_resume, image_preloader, user_key, new_hiberimage, tpm_key,
                   decide_result, decide_in, result, locked_memory, frozen, stop_site>>

\* ------------------------------------------------------- resume_inner()
\* resume.rs:449-451: don't fill up more than 33% of the RAM.
max_preload_bytes_impl(image_size, ram_size) == Min(image_size, (ram_size * 33) \div 100)

\* A plausible slip: the whole image is preloaded whatever the RAM size.
max_preload_bytes_no_ram_cap(image_size, ram_size) == image_size

max_preload_bytes(image_size, ram_size) == max_preload_bytes_impl(image_size, ram_size)

\* resume.rs:167-169 and preload_hiberimage_data, resume.rs:437-456
Inner_Preload ==
    /\ pc = "resume_inner"
    /\ \E read_ok \in BOOLEAN, buffer_ok \in BOOLEAN, size_ok \in BOOLEAN,
          image_size \in 0..MaxImageSize, ram_size \in {1, MaxRamSize} :
        IF ~read_ok
        THEN /\ ReturnInner(Err("Io", "get_hibernate_cookie"))
             /\ Call("is_resume_pending")
             /\ UNCHANGED <<image_preloader, workerVars, plVars>>
        ELSE IF cookie /= "ResumeInProgress"
        THEN /\ pc' = "wait_for_event"
             /\ Call("is_resume_pending")
             /\ UNCHANGED <<result, locked_memory, frozen, image_preloader, workerVars, plVars>>
        ELSE IF ~buffer_ok
        THEN /\ ReturnInner(Err("Io", "setup_hiberimage_buffer_device"))
             /\ calls' = calls \o <<"is_resume_pending", "setup_hiberimage_buffer_device">>
             /\ UNCHANGED <<image_preloader, workerVars, plVars>>
        ELSE IF ~size_ok
        THEN /\ ReturnInner(Err("Io", "read_hiberimage_size"))
             /\ calls' = calls \o <<"is_resume_pending", "setup_hiberimage_buffer_device",
                                    "read_hiberimage_size">>
             /\ UNCHANGED <<image_preloader, workerVars, plVars>>
        ELSE \* ImageDataPreloader::new, resume.rs:545-562
             /\ image_preloader' = "Some"
             /\ w_max' = max_preload_bytes(image_size, ram_size)
             /\ w_sizes' = [image_size |-> image_size, ram_size |-> ram_size]
             /\ w_pc' = "open"
             /\ w_bytes' = 0
             /\ handle' = "Some"
             /\ chan' = 0
             /\ stats' = [bytes_preloaded |-> 0, datarate_mbs |-> 0]
             /\ pc' = "wait_for_event"
             /\ calls' = calls \o <<"is_resume_pending", "setup_hiberimage_buffer_device",
                                    "read_hiberimage_size", "ImageDataPreloader::new">>
             /\ UNCHANGED <<result, locked_memory, frozen, w_region, w_regions, w_result,
                            joins, poisoned>>
    /\ UNCHANGED <<persistVars, opt_dry_run, dry_run, current_user, tried_to_resume,
                   user_key, new_hiberimage, tpm_key, decide_result, decide_in, ret,
                   pending_merge, stop_site>>

\* resume.rs:183-191, the AbortRequest arm as a function of
\* self.image_preloader: whether stop() runs before the error is returned.
abort_request_impl(ipl) == IF ipl = "Some" THEN "stop" ELSE "return"

\* A plausible slip: the error is returned with the worker left running.
abort_request_no_stop(ipl) == "return"

abort_request(ipl) == abort_request_impl(ipl)

\* The reasons a DBusEvent::AbortRequest may carry.
AbortReasons == {"hibernate is disabled", "user logged out"}

\* The reason of the AbortRequest event received in this run (the local
\* `reason` of resume.rs:183).
abort_reason == calls[First("AbortRequest") + 1]

\* resume.rs:190 and hiberutil.rs:68-70: the error of the AbortRequest arm.
not_supported_impl(reason) == Err("HibernateNotSupportedError", reason)

\* A plausible slip: the error built without the event's reason.
not_supported_no_reason(reason) == Err("HibernateNotSupportedError", "")

not_supported(reason) == not_supported_impl(reason)

\* resume.rs:173-192
Inner_WaitForEvent ==
    /\ pc = "wait_for_event"
    /\ \E ev \in AccountIds \cup {"wait_failed", "AbortRequest"}, key_ok \in BOOLEAN,
          reason \in AbortReasons :
        IF ev = "wait_failed"
        THEN /\ ReturnInner(Err("Io", "wait_for_event"))
             /\ Call("wait_for_event")
             /\ UNCHANGED <<current_user, user_key, image_preloader, stop_site>>
        ELSE IF ev = "AbortRequest"
        THEN /\ calls' = calls \o <<"wait_for_event", "AbortRequest", reason>>
             /\ UNCHANGED <<current_user, user_key>>
             /\ image_preloader' = "None"
             /\ IF abort_request(image_preloader) = "stop"
                THEN /\ stop_site' = "abort"
                     /\ pc' = "stop"
                     /\ UNCHANGED <<result, locked_memory, frozen>>
                ELSE /\ ReturnInner(not_supported(reason))
                     /\ UNCHANGED stop_site
        ELSE /\ current_user' = sanitize_username(ev)
             /\ UNCHANGED <<image_preloader, stop_site>>
             /\ IF key_ok
                THEN /\ user_key' = ev
                     /\ pc' = "decide_to_resume"
                     /\ calls' = calls \o <<"wait_for_event", "UserAuthenticated",
                                            "get_user_key_for_session">>
                     /\ UNCHANGED <<result, locked_memory, frozen>>
                ELSE /\ ReturnInner(Err("Io", "get_user_key_for_session"))
                     /\ calls' = calls \o <<"wait_for_event", "UserAuthenticated",
                                            "get_user_key_for_session">>
                     /\ UNCHANGED user_key
    /\ UNCHANGED <<persistVars, workerVars, plVars, opt_dry_run, dry_run, tried_to_resume,
                   new_hiberimage, tpm_key, decide_result, decide_in, ret, pending_merge>>

\* ------------------------------------------------ ImageDataPreloader::stop
WorkerEnded == w_pc = "done"

\* resume.rs:571-572, self.handle.take().context(..)? as a function of
\* self.handle: what stop() does next.
stop_impl(h) == IF h = "None" THEN "already_stopped" ELSE "join"

\* A plausible slip: unwrap() in place of context(..)?.
stop_unwrap(h) == IF h = "None" THEN "panicked" ELSE "join"

stop(h) == stop_impl(h)

\* resume.rs:569: try_send on the stop channel.  The message is queued while
\* the worker holds the receiver (capacity 1: Full leaves the one message);
\* once the worker ended the receiver is gone (Disconnected).  The result
\* is discarded.
try_send(c) == IF WorkerEnded THEN c ELSE 1

AlreadyStopped == Err("Msg", "preload thread is already stopped")

\* resume.rs:569-572: the non-blocking signal, then handle.take().
Preloader_Stop ==
    /\ pc = "stop"
    /\ chan' = try_send(chan)
    /\ handle' = "None"
    /\ Call("stop")
    /\ IF stop(handle) = "already_stopped"
       THEN ReturnInner(AlreadyStopped)
       ELSE /\ pc' = stop(handle)
            /\ UNCHANGED <<result, locked_memory, frozen>>
    /\ UNCHANGED <<persistVars, workerVars, joins, stats, poisoned, opt_dry_run, dry_run,
                   current_user, tried_to_resume, image_preloader, user_key, new_hiberimage,
                   tpm_key, decide_result, decide_in, ret, pending_merge, stop_site>>

\* resume.rs:573-582: join; a worker error or panic is logged, stop returns
\* Ok and the caller goes on (resume.rs:187-190, 198-204, 317-319).
Preloader_Join ==
    /\ pc = "join"
    /\ WorkerEnded
    /\ joins' = joins + 1
    /\ Call("join")
    /\ IF stop_site = "abort"
       THEN ReturnInner(not_supported(abort_reason))
       ELSE /\ pc' = IF stop_site = "decide_failed" THEN "make_thinpool_rw" ELSE "load_image"
            /\ UNCHANGED <<result, locked_memory, frozen>>
    /\ UNCHANGED <<persistVars, workerVars, chan, handle, stats, poisoned, opt_dry_run, dry_run,
                   current_user, tried_to_resume, image_preloader, user_key, new_hiberimage,
                   tpm_key, decide_result, decide_in, ret, pending_merge, stop_site>>

\* ------------------------------------------------------ decide_to_resume
\* resume.rs:246-303 as a function of what it reads: the cookie, dry_run,
\* self.current_user, the hibernating-user record (hib_ok: the read
\* succeeded) and whether a cookie write succeeds.  `write` is the value it
\* tries to write ("none": no write), `tried` whether it sets
\* tried_to_resume, `log` the metric it logs.
decide_to_resume_impl(ck, dry, cur, hib, hib_ok, write_ok) ==
    IF ck = "ResumeInProgress" \/ dry
    THEN IF ck = "ResumeInProgress"
         THEN IF ~hib_ok \/ hib = "absent"
              THEN [res |-> Err("Io", "get_hibernating_user"), write |-> "none", tried |-> FALSE, mismatch |-> FALSE]
              ELSE IF cur /= hib
              THEN [res |-> IF write_ok THEN Err("UserMismatchError", "decide_to_resume")
                                        ELSE Err("Io", "set_hibernate_cookie"),
                    write |-> "NoResume", tried |-> FALSE, mismatch |-> TRUE]
              ELSE [res |-> Ok, write |-> "none", tried |-> TRUE, mismatch |-> FALSE]
         ELSE [res |-> Ok, write |-> "none", tried |-> FALSE, mismatch |-> FALSE]
    ELSE IF ck = "NoResume"
    THEN [res |-> Err("CookieError", "No resume pending"), write |-> "none", tried |-> FALSE, mismatch |-> FALSE]
    ELSE IF ck = "EmergencyReboot"
    THEN [res |-> IF write_ok THEN Err("CookieError", "abandoning resume")
                              ELSE Err("Io", "set_hibernate_cookie"),
          write |-> "NoResume", tried |-> FALSE, mismatch |-> FALSE]
    ELSE [res |-> Err("CookieError", "abandoning resume"), write |-> "none", tried |-> FALSE, mismatch |-> FALSE]

\* Slips of decide_to_resume that the properties below must detect.
\* The identity check of resume.rs:256 left out.
decide_to_resume_no_user_check(ck, dry, cur, hib, hib_ok, write_ok) ==
    IF ck = "ResumeInProgress" /\ hib_ok /\ hib /= "absent"
    THEN [res |-> Ok, write |-> "none", tried |-> TRUE, mismatch |-> FALSE]
    ELSE decide_to_resume_impl(ck, dry, cur, hib, hib_ok, write_ok)

\* The cookie reset of resume.rs:262-266 left out.
decide_to_resume_keeps_cookie(ck, dry, cur, hib, hib_ok, write_ok) ==
    [decide_to_resume_impl(ck, dry, cur, hib, hib_ok, write_ok) EXCEPT !.write = "none"]

\* Ok instead of the error of resume.rs:298-302 once EmergencyReboot is cleared.
decide_to_resume_emergency_ok(ck, dry, cur, hib, hib_ok, write_ok) ==
    IF ck = "EmergencyReboot" /\ ~dry /\ write_ok
    THEN [res |-> Ok, write |-> "NoResume", tried |-> FALSE, mismatch |-> FALSE]
    ELSE decide_to_resume_impl(ck, dry, cur, hib, hib_ok, write_ok)

\* tried_to_resume of resume.rs:271 never set.
decide_to_resume_no_tried(ck, dry, cur, hib, hib_ok, write_ok) ==
    [decide_to_resume_impl(ck, dry, cur, hib, hib_ok, write_ok) EXCEPT !.tried = FALSE]

\* The mismatch reported with the error kind of resume.rs:283.
decide_to_resume_mismatch_as_cookie_error(ck, dry, cur, hib, hib_ok, write_ok) ==
    LET d == decide_to_resume_impl(ck, dry, cur, hib, hib_ok, write_ok)
    IN  IF d.res.kind = "UserMismatchError"
        THEN [d EXCEPT !.res = Err("CookieError", "No resume pending")]
        ELSE d

\* The tombstone value accepted like ResumeInProgress at resume.rs:253-254.
decide_to_resume_aborting_as_pending(ck, dry, cur, hib, hib_ok, write_ok) ==
    decide_to_resume_impl(IF ck = "ResumeAborting" THEN "ResumeInProgress" ELSE ck,
                          dry, cur, hib, hib_ok, write_ok)

\* The dry-run override of resume.rs:253 taken whatever the option says.
decide_to_resume_ignores_cookie(ck, dry, cur, hib, hib_ok, write_ok) ==
    decide_to_resume_impl(ck, TRUE, cur, hib, hib_ok, write_ok)

\* The clearing of an EmergencyReboot cookie (resume.rs:290-296) left out.
decide_to_resume_emergency_kept(ck, dry, cur, hib, hib_ok, write_ok) ==
    IF ck = "EmergencyReboot" /\ ~dry
    THEN [res |-> Err("CookieError", "abandoning resume"), write |-> "none",
          tried |-> FALSE, mismatch |-> FALSE]
    ELSE decide_to_resume_impl(ck, dry, cur, hib, hib_ok, write_ok)

\* The test of resume.rs:290 left out: every abnormal cookie is cleared.
decide_to_resume_aborting_cleared(ck, dry, cur, hib, hib_ok, write_ok) ==
    IF ck = "ResumeAborting" /\ ~dry
    THEN [res |-> IF write_ok THEN Err("CookieError", "abandoning resume")
                              ELSE Err("Io", "set_hibernate_cookie"),
          write |-> "NoResume", tried |-> FALSE, mismatch |-> FALSE]
    ELSE decide_to_resume_impl(ck, dry, cur, hib, hib_ok, write_ok)

\* resume.rs:197-204: the head of the no-resume path as a function of
\* self.image_preloader: a preloader that exists is stopped first.
decide_failed_impl(ipl) == IF ipl = "Some" THEN "stop" ELSE "make_thinpool_rw"

\* A plausible slip: the volumes are removed under a running preloader.
decide_failed_no_stop(ipl) == "make_thinpool_rw"

decide_failed(ipl) == decide_failed_impl(ipl)

\* A plausible slip: an EmergencyReboot cookie is reset to the pending state.
decide_to_resume_rearms(ck, dry, cur, hib, hib_ok, write_ok) ==
    IF ck = "EmergencyReboot" /\ ~dry
    THEN [decide_to_resume_impl(ck, dry, cur, hib, hib_ok, write_ok)
             EXCEPT !.write = "ResumeInProgress"]
    ELSE decide_to_resume_impl(ck, dry, cur, hib, hib_ok, write_ok)

\* decide_to_resume as the conductor calls it.
decide_to_resume(ck, dry, cur, hib, hib_ok, write_ok) ==
    decide_to_resume_impl(ck, dry, cur, hib, hib_ok, write_ok)

\* resume.rs:194-231: decide_to_resume and the branch on its result.
Inner_DecideToResume ==
    /\ pc = "decide_to_resume"
    /\ \E read_ok \in BOOLEAN, hib_ok \in BOOLEAN, write_ok \in BOOLEAN :
        LET d == IF read_ok
                 THEN decide_to_resume(cookie, dry_run, current_user, hibernating_user, hib_ok, write_ok)
                 ELSE [res |-> Err("Io", "get_hibernate_cookie"), write |-> "none",
                       tried |-> FALSE, mismatch |-> FALSE]
        IN  /\ decide_result' = d.res
            /\ decide_in' = [cookie |-> IF read_ok THEN cookie ELSE "unread",
                              hib_ok |-> read_ok /\ cookie = "ResumeInProgress" /\ hib_ok
                                         /\ hibernating_user /= "absent",
                              write_ok |-> d.write /= "none" /\ write_ok]
            /\ IF d.write = "none" THEN UNCHANGED cookie ELSE set_hibernate_cookie(d.write, write_ok)
            /\ tried_to_resume' = (tried_to_resume \/ d.tried)
            /\ new_hiberimage' = ~d.res.ok
            /\ calls' = calls \o <<"decide_to_resume">>
                              \o (IF d.mismatch THEN <<"log_event(ResumeSkippedUserMismatch)">> ELSE <<>>)
                              \o (IF d.write = "none" THEN <<>> ELSE <<"set_hibernate_cookie(NoResume)">>)
                              \o (IF d.res.ok THEN <<"log_event(ResumeAttempt)">> ELSE <<>>)
            /\ IF d.res.ok
               THEN /\ pc' = "setup_snapshot_device"
                    /\ UNCHANGED <<image_preloader, stop_site>>
               ELSE IF decide_failed(image_preloader) = "stop"
               THEN /\ image_preloader' = "None"
                    /\ stop_site' = "decide_failed"
                    /\ pc' = "stop"
               ELSE /\ pc' = decide_failed(image_preloader)
                    /\ UNCHANGED <<image_preloader, stop_site>>
    /\ UNCHANGED <<boot_cookie, hibernating_user, tpm_seed, hiberimage, locked_down, snapdev_block,
                   workerVars, plVars, opt_dry_run, dry_run, current_user, user_key, tpm_key,
                   result, ret, pending_merge, locked_memory, frozen>>

\* ------------------------------------------- the no-resume path, 201-221
\* resume.rs:204
Inner_MakeThinpoolRw ==
    /\ pc = "make_thinpool_rw"
    /\ Call("make_thinpool_rw")
    /\ \E ok \in BOOLEAN :
        IF ok
        THEN /\ pc' = "teardown_hiberimage"
             /\ UNCHANGED <<result, locked_memory, frozen>>
        ELSE ReturnInner(Err("Io", "make_thinpool_rw"))
    /\ UNCHANGED <<persistVars, workerVars, plVars, opt_dry_run, dry_run, current_user,
                   tried_to_resume, image_preloader, user_key, new_hiberimage, tpm_key,
                   decide_result, decide_in, ret, pending_merge, stop_site>>

\* resume.rs:208
Inner_TeardownHiberimage ==
    /\ pc = "teardown_hiberimage"
    /\ Call("teardown_hiberimage")
    /\ \E ok \in BOOLEAN :
        IF ok
        THEN /\ hiberimage' = "none"
             /\ snapdev_block' = "none"
             /\ pc' = "setup_snapshot_device"
             /\ UNCHANGED <<result, locked_memory, frozen>>
        ELSE /\ ReturnInner(Err("Io", "teardown_hiberimage"))
             /\ UNCHANGED <<hiberimage, snapdev_block>>
    /\ UNCHANGED <<cookie, boot_cookie, hibernating_user, tpm_seed, locked_down, workerVars, plVars,
                   opt_dry_run, dry_run, current_user, tried_to_resume, image_preloader,
                   user_key, new_hiberimage, tpm_key, decide_result, decide_in, ret,
                   pending_merge, stop_site>>

\* ------------------------------------------------- setup_snapshot_device
\* resume.rs:405-418 as a function of the seed file (its length, -1 when
\* absent) and of the outcome of each file operation: the result, the seed
\* file afterwards and the key material returned.
get_tpm_derived_integrity_key_impl(seed, open_ok, unlink_ok, read_ok) ==
    IF seed = -1 \/ ~open_ok
    THEN [res |-> Err("Io", "File::open"), seed |-> seed, key |-> -1]
    ELSE IF ~unlink_ok
    THEN [res |-> Err("Io", "remove_file"), seed |-> seed, key |-> -1]
    ELSE IF ~read_ok
    THEN [res |-> Err("Io", "read_to_end"), seed |-> -1, key |-> -1]
    ELSE IF seed /= TPM_SEED_SIZE
    THEN [res |-> Err("KeyRetrievalError", "get_tpm_derived_integrity_key"), seed |-> -1, key |-> -1]
    ELSE [res |-> Ok, seed |-> -1, key |-> seed]

\* A plausible slip: `<` in place of `!=` at resume.rs:413.
get_tpm_derived_integrity_key_min_size(seed, open_ok, unlink_ok, read_ok) ==
    IF seed > TPM_SEED_SIZE /\ open_ok /\ unlink_ok /\ read_ok
    THEN [res |-> Ok, seed |-> -1, key |-> seed]
    ELSE get_tpm_derived_integrity_key_impl(seed, open_ok, unlink_ok, read_ok)

get_tpm_derived_integrity_key(seed, open_ok, unlink_ok, read_ok) ==
    get_tpm_derived_integrity_key_impl(seed, open_ok, unlink_ok, read_ok)

\* resume.rs:394-403, for both values of new_hiberimage.
SetupSnapshotDevice ==
    /\ pc = "setup_snapshot_device"
    /\ \E open_ok \in BOOLEAN, unlink_ok \in BOOLEAN, read_ok \in BOOLEAN,
          image_ok \in BOOLEAN, snap_ok \in BOOLEAN, bind_ok \in BOOLEAN :
        LET k == get_tpm_derived_integrity_key(tpm_seed, open_ok, unlink_ok, read_ok)
            tag == IF new_hiberimage THEN "setup_snapshot_device(new)"
                                     ELSE "setup_snapshot_device(existing)"
        IN  /\ tpm_seed' = k.seed
            /\ IF ~k.res.ok
               THEN /\ ReturnInner(k.res)
                    /\ calls' = calls \o <<tag, "get_tpm_derived_integrity_key">>
                    /\ UNCHANGED <<tpm_key, hiberimage, snapdev_block>>
               ELSE IF ~image_ok
               THEN /\ ReturnInner(Err("Io", "setup_hiberimage"))
                    /\ tpm_key' = k.key
                    /\ calls' = calls \o <<tag, "get_tpm_derived_integrity_key", "setup_hiberimage">>
                    /\ UNCHANGED <<hiberimage, snapdev_block>>
               ELSE IF ~snap_ok
               THEN /\ ReturnInner(Err("SnapshotError", "SnapshotDevice::new(Read)"))
                    /\ tpm_key' = k.key
                    /\ hiberimage' = IF new_hiberimage THEN "new" ELSE hiberimage
                    /\ calls' = calls \o <<tag, "get_tpm_derived_integrity_key", "setup_hiberimage",
                                           "SnapshotDevice::new(Read)">>
                    /\ UNCHANGED snapdev_block
               ELSE IF ~bind_ok
               THEN /\ ReturnInner(Err("SnapshotIoctlError", "set_block_device"))
                    /\ tpm_key' = k.key
                    /\ hiberimage' = IF new_hiberimage THEN "new" ELSE hiberimage
                    /\ calls' = calls \o <<tag, "get_tpm_derived_integrity_key", "setup_hiberimage",
                                           "SnapshotDevice::new(Read)", "set_block_device">>
                    /\ UNCHANGED snapdev_block
               ELSE /\ tpm_key' = k.key
                    /\ hiberimage' = IF new_hiberimage THEN "new" ELSE hiberimage
                    /\ snapdev_block' = "hiberimage"
                    /\ pc' = "lockdown_hiberimage"
                    /\ calls' = calls \o <<tag, "get_tpm_derived_integrity_key", "setup_hiberimage",
                                           "SnapshotDevice::new(Read)", "set_block_device">>
                    /\ UNCHANGED <<result, locked_memory, frozen>>
    /\ UNCHANGED <<cookie, boot_cookie, hibernating_user, locked_down, workerVars, plVars, opt_dry_run,
                   dry_run, current_user, tried_to_resume, image_preloader, user_key,
                   new_hiberimage, decide_result, decide_in, ret, pending_merge, stop_site>>

\* resume.rs:213 and resume.rs:238
LockdownHiberimage ==
    /\ pc = "lockdown_hiberimage"
    /\ Call("lockdown_hiberimage")
    /\ \E ok \in BOOLEAN :
        IF ok
        THEN /\ locked_down' = TRUE
             /\ pc' = IF new_hiberimage THEN "record_hibernating_user" ELSE "lock_process_memory"
             /\ UNCHANGED <<result, locked_memory, frozen>>
        ELSE /\ ReturnInner(Err("Io", "lockdown_hiberimage"))
             /\ UNCHANGED locked_down
    /\ UNCHANGED <<cookie, boot_cookie, hibernating_user, tpm_seed, hiberimage, snapdev_block, workerVars,
                   plVars, opt_dry_run, dry_run, current_user, tried_to_resume, image_preloader,
                   user_key, new_hiberimage, tpm_key, decide_result, decide_in, ret,
                   pending_merge, stop_site>>

\* resume.rs:219-221 and record_hibernating_user, resume.rs:498-511.
\* File::create truncates the record before the write.
Inner_RecordHibernatingUser ==
    /\ pc = "record_hibernating_user"
    /\ Call("record_hibernating_user")
    /\ \E create_ok \in BOOLEAN, write_ok \in BOOLEAN :
        IF ~create_ok
        THEN /\ ReturnInner(Err("Io", "File::create"))
             /\ UNCHANGED hibernating_user
        ELSE IF ~write_ok
        THEN /\ ReturnInner(Err("Io", "write_all"))
             /\ hibernating_user' = ""
        ELSE /\ hibernating_user' = current_user
             /\ ReturnInner(decide_result)
    /\ UNCHANGED <<cookie, boot_cookie, tpm_seed, hiberimage, locked_down, snapdev_block, workerVars,
                   plVars, opt_dry_run, dry_run, current_user, tried_to_resume, image_preloader,
                   user_key, new_hiberimage, tpm_key, decide_result, decide_in, ret,
                   pending_merge, stop_site>>

\* ------------------------------------------------ the resume path, 240-241
\* hiberutil.rs:264-275
Inner_LockProcessMemory ==
    /\ pc = "lock_process_memory"
    /\ Call("lock_process_memory")
    /\ \E ok \in BOOLEAN :
        IF ok
        THEN /\ locked_memory' = TRUE
             /\ pc' = "resume_system"
             /\ UNCHANGED <<result, frozen>>
        ELSE ReturnInner(Err("MlockallError", "lock_process_memory"))
    /\ UNCHANGED <<persistVars, workerVars, plVars, opt_dry_run, dry_run, current_user,
                   tried_to_resume, image_preloader, user_key, new_hiberimage, tpm_key,
                   decide_result, decide_in, ret, pending_merge, stop_site>>

\* -------------------------------------------------------- resume_system
\* resume.rs:316-317: self.image_preloader.take().unwrap() and the stop()
\* that follows, as a function of self.image_preloader: the next position
\* of the conductor.
take_preloader_impl(ipl) == IF ipl = "Some" THEN "stop" ELSE "panicked"

\* A plausible slip: the image is loaded without stopping the preloader.
take_preloader_no_stop(ipl) == IF ipl = "Some" THEN "load_image" ELSE "panicked"

take_preloader(ipl) == take_preloader_impl(ipl)

\* resume.rs:308-316: mount hibermeta, open the log file, call powerd, then
\* take the preloader out of self (unwrap panics on None).
ResumeSystem_Prepare ==
    /\ pc = "resume_system"
    /\ \E mount_ok \in BOOLEAN, log_ok \in BOOLEAN, powerd_ok \in BOOLEAN :
        IF ~mount_ok
        THEN /\ ReturnInner(Err("Io", "setup_hibermeta_lv(false)"))
             /\ calls' = calls \o <<"setup_hibermeta_lv(false)">>
             /\ UNCHANGED <<image_preloader, stop_site>>
        ELSE IF ~log_ok
        THEN /\ ReturnInner(Err("Io", "LogFile::new"))
             /\ calls' = calls \o <<"setup_hibermeta_lv(false)", "LogFile::new">>
             /\ UNCHANGED <<image_preloader, stop_site>>
        ELSE IF ~powerd_ok
        THEN /\ ReturnInner(Err("Io", "PowerdPendingResume::new"))
             /\ calls' = calls \o <<"setup_hibermeta_lv(false)", "LogFile::new",
                                    "PowerdPendingResume::new">>
             /\ UNCHANGED <<image_preloader, stop_site>>
        ELSE /\ calls' = calls \o <<"setup_hibermeta_lv(false)", "LogFile::new",
                                    "PowerdPendingResume::new", "image_preloader.take().unwrap()">>
             /\ UNCHANGED <<result, locked_memory, frozen>>
             /\ image_preloader' = "None"
             /\ pc' = take_preloader(image_preloader)
             /\ stop_site' = IF image_preloader = "Some" THEN "resume_system" ELSE stop_site
    /\ UNCHANGED <<persistVars, workerVars, plVars, opt_dry_run, dry_run, current_user,
                   tried_to_resume, user_key, new_hiberimage, tpm_key, decide_result,
                   decide_in, ret, pending_merge>>

\* resume.rs:319-327: open the snapshot device, load the image, record the
\* metrics (stats() unwraps the stats mutex: a poisoned mutex panics), wait
\* for powerd's acknowledgment.
ResumeSystem_LoadImage ==
    /\ pc = "load_image"
    /\ \E snap_ok \in BOOLEAN, load_ok \in BOOLEAN, ready_ok \in BOOLEAN :
        IF ~snap_ok
        THEN /\ ReturnInner(Err("SnapshotError", "SnapshotDevice::new(Write)"))
             /\ calls' = calls \o <<"SnapshotDevice::new(Write)">>
        ELSE IF ~load_ok
        THEN /\ ReturnInner(Err("SnapshotIoctlError", "load_image"))
             /\ calls' = calls \o <<"SnapshotDevice::new(Write)", "load_image">>
        ELSE IF poisoned
        THEN /\ Panic
             /\ calls' = calls \o <<"SnapshotDevice::new(Write)", "load_image", "stats">>
             /\ UNCHANGED <<result, locked_memory, frozen>>
        ELSE IF ~ready_ok
        THEN /\ ReturnInner(Err("Io", "wait_for_hibernate_resume_ready"))
             /\ calls' = calls \o <<"SnapshotDevice::new(Write)", "load_image", "stats",
                                    "wait_for_hibernate_resume_ready">>
        ELSE /\ pc' = "set_cookie_aborting"
             /\ calls' = calls \o <<"SnapshotDevice::new(Write)", "load_image", "stats",
                                    "wait_for_hibernate_resume_ready">>
             /\ UNCHANGED <<result, locked_memory, frozen>>
    /\ UNCHANGED <<persistVars, workerVars, plVars, opt_dry_run, dry_run, current_user,
                   tried_to_resume, image_preloader, user_key, new_hiberimage, tpm_key,
                   decide_result, decide_in, ret, pending_merge, stop_site>>

\* resume.rs:333-337: the `?` on the tombstone write, as a function of the
\* outcome of the write: the next position of the conductor.
tombstone_written_impl(write_ok) == IF write_ok THEN "freeze_userspace" ELSE "return"

\* A plausible slip: the result of the write is ignored.
tombstone_written_unchecked(write_ok) == "freeze_userspace"

tombstone_written(write_ok) == tombstone_written_impl(write_ok)

\* resume.rs:333-337: the tombstone.
ResumeSystem_Tombstone ==
    /\ pc = "set_cookie_aborting"
    /\ Call("set_hibernate_cookie(ResumeAborting)")
    /\ \E write_ok \in BOOLEAN :
        /\ set_hibernate_cookie("ResumeAborting", write_ok)
        /\ IF tombstone_written(write_ok) = "return"
           THEN ReturnInner(Err("Io", "set_hibernate_cookie"))
           ELSE /\ pc' = tombstone_written(write_ok)
                /\ UNCHANGED <<result, locked_memory, frozen>>
    /\ UNCHANGED <<boot_cookie, hibernating_user, tpm_seed, hiberimage, locked_down, snapdev_block,
                   workerVars, plVars, opt_dry_run, dry_run, current_user, tried_to_resume,
                   image_preloader, user_key, new_hiberimage, tpm_key, decide_result,
                   decide_in, ret, pending_merge, stop_site>>

\* resume.rs:339-375: freeze userspace, timestamps, metrics flush, sync.
ResumeSystem_Freeze ==
    /\ pc = "freeze_userspace"
    /\ \E freeze_ok \in BOOLEAN, ts1_ok \in BOOLEAN, flush_ok \in BOOLEAN, ts2_ok \in BOOLEAN :
        IF ~freeze_ok
        THEN /\ ReturnInner(Err("SnapshotIoctlError", "freeze_userspace"))
             /\ calls' = calls \o <<"freeze_userspace">>
        ELSE IF ~ts1_ok
        THEN /\ ReturnInner(Err("Io", "record_timestamp(resume_start)"))
             /\ calls' = calls \o <<"freeze_userspace", "record_timestamp(resume_start)">>
        ELSE IF ~flush_ok
        THEN /\ ReturnInner(Err("Io", "metrics_flush"))
             /\ calls' = calls \o <<"freeze_userspace", "record_timestamp(resume_start)",
                                    "metrics_flush">>
        ELSE IF ~ts2_ok
        THEN /\ ReturnInner(Err("Io", "record_timestamp(restore_start)"))
             /\ calls' = calls \o <<"freeze_userspace", "record_timestamp(resume_start)",
                                    "metrics_flush", "record_timestamp(restore_start)">>
        ELSE /\ frozen' = TRUE
             /\ pc' = "launch"
             /\ calls' = calls \o <<"freeze_userspace", "record_timestamp(resume_start)",
                                    "metrics_flush", "record_timestamp(restore_start)", "sync">>
             /\ UNCHANGED <<result, locked_memory>>
    /\ UNCHANGED <<persistVars, workerVars, plVars, opt_dry_run, dry_run, current_user,
                   tried_to_resume, image_preloader, user_key, new_hiberimage, tpm_key,
                   decide_result, decide_in, ret, pending_merge, stop_site>>

\* resume.rs:377-383: the last step of resume_system as a function of
\* self.options.dry_run.
launch_impl(dry) == IF dry THEN "return_ok" ELSE "atomic_restore"

\* A plausible slip: the dry-run test left out.
launch_always(dry) == "atomic_restore"

launch(dry) == launch_impl(dry)

\* resume.rs:377-383 and launch_resume_image, resume.rs:424-433: under
\* dry_run return Ok; else atomic_restore, which either replaces the running
\* image (the process is gone) or returns an error.
ResumeSystem_Launch ==
    /\ pc = "launch"
    /\ IF launch(dry_run) = "return_ok"
       THEN /\ ReturnInner(Ok)
            /\ Call("dry_run: not launching")
       ELSE /\ Call("atomic_restore")
            /\ \E jumped \in BOOLEAN :
                IF jumped
                THEN /\ pc' = "resumed"
                     /\ UNCHANGED <<result, locked_memory, frozen>>
                ELSE ReturnInner(Err("SnapshotIoctlError", "atomic_restore"))
    /\ UNCHANGED <<persistVars, workerVars, plVars, opt_dry_run, dry_run, current_user,
                   tried_to_resume, image_preloader, user_key, new_hiberimage, tpm_key,
                   decide_result, decide_in, ret, pending_merge, stop_site>>

\* --------------------------------------------------- resume(), the exit
\* resume.rs:120-160: what resume() does with the result of resume_inner.
resume_exit(res, mount_ok) ==
    IF mount_ok THEN res ELSE IF res.ok THEN Err("Io", "setup_hibermeta_lv(true)") ELSE res

\* resume.rs:120-157: the operations resume() executes after resume_inner
\* returned res.  When the mount fails it returns early, logging the mount
\* error if res is an error (resume.rs:139-141).
exit_calls_impl(res, tried, mount_ok) ==
    (IF tried THEN <<"log_event(ResumeFailure)">> ELSE <<>>)
    \o <<"redirect_log(Syslog)", "setup_hibermeta_lv(true)">>
    \o (IF mount_ok
        THEN <<"replay_logs", "remove_resume_in_progress_file",
               "drop(pending_merge)", "read_and_send_metrics">>
        ELSE IF res.ok THEN <<>> ELSE <<"error!(setup_hibermeta_lv)">>)

\* A plausible slip: logs and metrics handled only when resume_inner
\* returned Ok.
exit_calls_skip_on_error(res, tried, mount_ok) ==
    IF res.ok \/ ~mount_ok
    THEN exit_calls_impl(res, tried, mount_ok)
    ELSE (IF tried THEN <<"log_event(ResumeFailure)">> ELSE <<>>)
         \o <<"redirect_log(Syslog)", "setup_hibermeta_lv(true)", "drop(pending_merge)">>

exit_calls(res, tried, mount_ok) == exit_calls_impl(res, tried, mount_ok)

Resume_Exit ==
    /\ pc = "after_inner"
    /\ \E mount_ok \in BOOLEAN :
        /\ ReturnResume(resume_exit(result, mount_ok))
        /\ calls' = calls \o exit_calls(result, tried_to_resume, mount_ok)
    /\ UNCHANGED <<persistVars, workerVars, plVars, opt_dry_run, dry_run, current_user,
                   tried_to_resume, image_preloader, user_key, new_hiberimage, tpm_key,
                   decide_result, decide_in, result, locked_memory, frozen, stop_site>>

\* ------------------------------------- ImageDataPreloader::preload_data
\* resume.rs:598-610: find and open the buffer device.
Worker_Open ==
    /\ w_pc = "open"
    /\ \E ok \in BOOLEAN :
        IF ok
        THEN /\ w_pc' = "check"
             /\ UNCHANGED w_result
        ELSE /\ w_pc' = "done"
             /\ w_result' = "err"
    /\ UNCHANGED <<persistVars, condVars, plVars, w_max, w_sizes, w_bytes, w_region, w_regions>>

\* resume.rs:627: the size of the next region.
region_size_impl(max, bytes_preloaded) == Min(max_region_size, max - bytes_preloaded)

\* A plausible slip: the last region is not cut at the cap.
region_size_uncut(max, bytes_preloaded) == max_region_size

region_size(max, bytes_preloaded) == region_size_impl(max, bytes_preloaded)

\* resume.rs:621: stop_receiver.try_recv() != Err(Empty), as a function of
\* the number of signals waiting in the channel.
stop_requested_impl(c) == c > 0

\* A plausible slip: the worker never looks at the channel.
stop_requested_never(c) == FALSE

stop_requested(c) == stop_requested_impl(c)

\* resume.rs:621-626: the cancellation check at the head of the loop.  The
\* sender lives in the ImageDataPreloader, which is dropped only after a
\* join, so try_recv never reports Disconnected to a running worker here.
Worker_Check ==
    /\ w_pc = "check"
    /\ IF stop_requested(chan)
       THEN /\ chan' = 0
            /\ w_pc' = "finish"
            /\ UNCHANGED w_region
       ELSE /\ w_region' = region_size(w_max, w_bytes)
            /\ w_pc' = "map"
            /\ UNCHANGED chan
    /\ UNCHANGED <<persistVars, condVars, handle, joins, stats, poisoned, w_max, w_sizes, w_bytes,
                   w_regions, w_result>>

\* resume.rs:627-634 and preload_region, resume.rs:647-671.  mmap of a
\* region of length 0 fails (EINVAL).
Worker_Map ==
    /\ w_pc = "map"
    /\ \E io_ok \in BOOLEAN :
        IF io_ok /\ w_region > 0
        THEN /\ w_bytes' = w_bytes + w_region
             /\ w_regions' = Append(w_regions, <<w_bytes, w_region>>)
             /\ w_pc' = IF w_bytes + w_region = w_max THEN "finish" ELSE "check"
             /\ UNCHANGED w_result
        ELSE /\ w_pc' = "done"
             /\ w_result' = "err"
             /\ UNCHANGED <<w_bytes, w_regions>>
    /\ UNCHANGED <<persistVars, condVars, plVars, w_max, w_sizes, w_region>>

\* resume.rs:637-643: the statistics.  The division by duration.as_secs()
\* panics when the run took less than a second; the panic happens with the
\* stats mutex held, which poisons it.  The cast to u32 never truncates: a
\* preload is at most a third of the RAM, far below 2^32 MiB.
Worker_Finish ==
    /\ w_pc = "finish"
    /\ \E secs \in 0..MaxSecs :
        IF secs = 0
        THEN /\ stats' = [stats EXCEPT !.bytes_preloaded = w_bytes]
             /\ poisoned' = TRUE
             /\ w_result' = "panic"
        ELSE /\ stats' = [bytes_preloaded |-> w_bytes,
                          datarate_mbs |-> (w_bytes * UnitMiB) \div secs]
             /\ w_result' = "ok"
             /\ UNCHANGED poisoned
    /\ w_pc' = "done"
    /\ UNCHANGED <<persistVars, condVars, chan, handle, joins, w_max, w_sizes, w_bytes,
                   w_region, w_regions>>

\* ------------------------------------------------------------------ spec
Next ==
    \/ Resume_IsResumePending
    \/ Resume_Prepare
    \/ Inner_Preload
    \/ Inner_WaitForEvent
    \/ Preloader_Stop
    \/ Preloader_Join
    \/ Inner_DecideToResume
    \/ Inner_MakeThinpoolRw
    \/ Inner_TeardownHiberimage
    \/ SetupSnapshotDevice
    \/ LockdownHiberimage
    \/ Inner_RecordHibernatingUser
    \/ Inner_LockProcessMemory
    \/ ResumeSystem_Prepare
    \/ ResumeSystem_LoadImage
    \/ ResumeSystem_Tombstone
    \/ ResumeSystem_Freeze
    \/ ResumeSystem_Launch
    \/ Resume_Exit
    \/ Worker_Open
    \/ Worker_Check
    \/ Worker_Map
    \/ Worker_Finish

Spec == Init /\ [][Next]_vars

\* ------------------------------------------ the ImageDataPreloader alone
\* A caller that owns an ImageDataPreloader and calls stop() on it up to
\* MaxStops times while the worker thread runs.
Count(c) == Cardinality({i \in 1..Len(calls) : calls[i] = c})

\* ImageDataPreloader::new(max_preload_bytes), resume.rs:545-562, with the
\* cap computed as in resume.rs:449-453.
InitPreloader ==
    /\ cookie = "ResumeInProgress"
    /\ boot_cookie = cookie
    /\ hibernating_user = "absent"
    /\ tpm_seed = -1
    /\ hiberimage = "existing"
    /\ locked_down = FALSE
    /\ snapdev_block = "none"
    /\ pc = "idle"
    /\ opt_dry_run = FALSE
    /\ dry_run = FALSE
    /\ current_user = "None"
    /\ tried_to_resume = FALSE
    /\ image_preloader = "Some"
    /\ user_key = "none"
    /\ new_hiberimage = FALSE
    /\ tpm_key = -1
    /\ decide_result = NoResult
    /\ decide_in = [cookie |-> "unread", hib_ok |-> FALSE, write_ok |-> FALSE]
    /\ result = NoResult
    /\ ret = NoResult
    /\ pending_merge = "none"
    /\ locked_memory = FALSE
    /\ frozen = FALSE
    /\ stop_site = "none"
    /\ calls = <<"ImageDataPreloader::new">>
    /\ w_pc = "open"
    /\ \E image_size \in 0..MaxImageSize, ram_size \in {1, MaxRamSize} :
            /\ w_max = max_preload_bytes(image_size, ram_size)
            /\ w_sizes = [image_size |-> image_size, ram_size |-> ram_size]
    /\ w_bytes = 0
    /\ w_region = 0
    /\ w_regions = <<>>
    /\ w_result = "none"
    /\ chan = 0
    /\ handle = "Some"
    /\ joins = 0
    /\ stats = [bytes_preloaded |-> 0, datarate_mbs |-> 0]
    /\ poisoned = FALSE

\* resume.rs:568-572: stop() is called; the signal, then handle.take().
Api_Stop ==
    /\ pc = "idle"
    /\ Count("stop") < MaxStops
    /\ chan' = try_send(chan)
    /\ handle' = "None"
    /\ Call("stop")
    /\ IF stop(handle) = "already_stopped"
       THEN /\ result' = AlreadyStopped
            /\ UNCHANGED pc
       ELSE /\ pc' = stop(handle)
            /\ UNCHANGED result
    /\ UNCHANGED <<persistVars, workerVars, joins, stats, poisoned, opt_dry_run, dry_run,
                   current_user, tried_to_resume, image_preloader, user_key, new_hiberimage,
                   tpm_key, decide_result, decide_in, ret, pending_merge, locked_memory,
                   frozen, stop_site>>

\* resume.rs:573-582: the join; stop() returns Ok whatever the thread's result.
Api_Join ==
    /\ pc = "join"
    /\ WorkerEnded
    /\ joins' = joins + 1
    /\ Call("join")
    /\ result' = Ok
    /\ pc' = "idle"
    /\ UNCHANGED <<persistVars, workerVars, chan, handle, stats, poisoned, opt_dry_run, dry_run,
                   current_user, tried_to_resume, image_preloader, user_key, new_hiberimage,
                   tpm_key, decide_result, decide_in, ret, pending_merge, locked_memory,
                   frozen, stop_site>>

NextPreloader ==
    \/ Api_Stop
    \/ Api_Join
    \/ Worker_Open
    \/ Worker_Check
    \/ Worker_Map
    \/ Worker_Finish

SpecPreloader == InitPreloader /\ [][NextPreloader]_vars

\* The same caller and worker under a scheduler that lets each thread run:
\* a worker step that stays possible is eventually taken (the thread is
\* runnable and every step is a finite operation), and so is the return
\* of handle.join() once the worker thread has ended.
SpecPreloaderFair ==
    /\ SpecPreloader
    /\ WF_vars(Worker_Open)
    /\ WF_vars(Worker_Check)
    /\ WF_vars(Worker_Map)
    /\ WF_vars(Worker_Finish)
    /\ WF_vars(Api_Join)


\* ------------------------------------------------- emergency_reboot alone
\* Reasons a caller hands to emergency_reboot.
Reasons == {"Failed to hibernate", "Failed to resume", "Logs are lost"}

\* Ways the reboot command can end (Command::spawn, Child::wait, the exit
\* status).
CommandOutcomes == {"success", "spawn_failed", "wait_failed", "exit_nonzero"}

\* hiberutil.rs:312-325
checked_command(outcome) ==
    IF outcome = "success" THEN Ok
    ELSE IF outcome = "spawn_failed" THEN Err("Io", "Command::spawn")
    ELSE IF outcome = "wait_failed" THEN Err("Io", "Child::wait")
    ELSE Err("SpawnedProcessError", "checked_command")

\* A process that calls emergency_reboot(reason), hiberutil.rs:349.
InitEmergency ==
    /\ cookie \in HibernateCookieValue
    /\ boot_cookie = cookie
    /\ hibernating_user = "absent"
    /\ tpm_seed = -1
    /\ hiberimage = "existing"
    /\ locked_down = FALSE
    /\ snapdev_block = "none"
    /\ pc = "emergency_reboot"
    /\ opt_dry_run = FALSE
    /\ dry_run = FALSE
    /\ current_user = "None"
    /\ tried_to_resume = FALSE
    /\ image_preloader = "None"
    /\ user_key = "none"
    /\ new_hiberimage = FALSE
    /\ tpm_key = -1
    /\ decide_result = NoResult
    /\ decide_in = [cookie |-> "unread", hib_ok |-> FALSE, write_ok |-> FALSE]
    /\ result = NoResult
    /\ ret = NoResult
    /\ pending_merge = "none"
    /\ locked_memory = FALSE
    /\ frozen = FALSE
    /\ stop_site = "none"
    /\ \E reason \in Reasons : calls = <<"emergency_reboot", reason>>
    /\ w_pc = "none"
    /\ w_max = 0
    /\ w_sizes = [image_size |-> 0, ram_size |-> 0]
    /\ w_bytes = 0
    /\ w_region = 0
    /\ w_regions = <<>>
    /\ w_result = "none"
    /\ chan = 0
    /\ handle = "None"
    /\ joins = 0
    /\ stats = [bytes_preloaded |-> 0, datarate_mbs |-> 0]
    /\ poisoned = FALSE

\* What emergency_reboot leaves alone: everything but the cookie, the
\* position and the history.
emergencyFrame ==
    <<boot_cookie, hibernating_user, tpm_seed, hiberimage, locked_down, snapdev_block,
      opt_dry_run, dry_run, current_user, tried_to_resume, image_preloader, user_key,
      new_hiberimage, tpm_key, decide_result, decide_in, ret, pending_merge,
      locked_memory, frozen, stop_site, workerVars, plVars>>

\* hiberutil.rs:350-354: the cookie write; a failure is logged and ignored.
Emergency_SetCookie ==
    /\ pc = "emergency_reboot"
    /\ \E write_ok \in BOOLEAN :
        /\ set_hibernate_cookie("EmergencyReboot", write_ok)
        /\ calls' = calls \o <<"set_hibernate_cookie(EmergencyReboot)">>
                          \o (IF write_ok THEN <<>> ELSE <<"error!(Failed to set cookie)">>)
    /\ pc' = "redirect_log"
    /\ UNCHANGED <<emergencyFrame, result>>

\* hiberutil.rs:355-357
Emergency_RedirectLog ==
    /\ pc = "redirect_log"
    /\ Call("redirect_log(BufferInMemory)")
    /\ pc' = "reboot_system"
    /\ UNCHANGED <<emergencyFrame, cookie, result>>

\* hiberutil.rs:358 and reboot_system, hiberutil.rs:365-368: expect()
\* panics when the reboot command fails.
Emergency_RebootSystem ==
    /\ pc = "reboot_system"
    /\ Call("reboot_system")
    /\ \E outcome \in CommandOutcomes :
        /\ result' = checked_command(outcome)
        /\ IF checked_command(outcome).ok THEN pc' = "exit" ELSE Panic
    /\ UNCHANGED <<emergencyFrame, cookie>>

\* hiberutil.rs:359-361
Emergency_Exit ==
    /\ pc = "exit"
    /\ Call("exit(9)")
    /\ pc' = "exited(9)"
    /\ UNCHANGED <<emergencyFrame, cookie, result>>

NextEmergency ==
    \/ Emergency_SetCookie
    \/ Emergency_RedirectLog
    \/ Emergency_RebootSystem
    \/ Emergency_Exit

SpecEmergency == InitEmergency /\ [][NextEmergency]_vars

\* ------------------------------------------------- a sequence of boots
\* The machine restarts (a reboot after resume() returned, after
\* emergency_reboot, or a crash at any point) and the next boot runs
\* resume() again.  The cookie, the hibernating-user record and the
\* hiberimage volume are on disk and survive; the device-mapper and
\* snapshot-device configuration and every process are gone; the boot
\* leaves a seed file for the new run.  No hibernate happens in between,
\* so nothing else writes the cookie.
Reboot ==
    /\ pc /= "resume"
    /\ boot_cookie' = cookie
    /\ tpm_seed' \in {-1, TPM_SEED_SIZE}
    /\ locked_down' = FALSE
    /\ snapdev_block' = "none"
    /\ pc' = "resume"
    /\ opt_dry_run' \in BOOLEAN
    /\ dry_run' = FALSE
    /\ current_user' = "None"
    /\ tried_to_resume' = FALSE
    /\ image_preloader' = "None"
    /\ user_key' = "none"
    /\ new_hiberimage' = FALSE
    /\ tpm_key' = -1
    /\ decide_result' = NoResult
    /\ decide_in' = [cookie |-> "unread", hib_ok |-> FALSE, write_ok |-> FALSE]
    /\ result' = NoResult
    /\ ret' = NoResult
    /\ pending_merge' = "none"
    /\ locked_memory' = FALSE
    /\ frozen' = FALSE
    /\ stop_site' = "none"
    /\ calls' = <<>>
    /\ w_pc' = "none"
    /\ w_max' = 0
    /\ w_sizes' = [image_size |-> 0, ram_size |-> 0]
    /\ w_bytes' = 0
    /\ w_region' = 0
    /\ w_regions' = <<>>
    /\ w_result' = "none"
    /\ chan' = 0
    /\ handle' = "None"
    /\ joins' = 0
    /\ stats' = [bytes_preloaded |-> 0, datarate_mbs |-> 0]
    /\ poisoned' = FALSE
    /\ UNCHANGED <<cookie, hibernating_user, hiberimage>>

\* hiberutil.rs:349: on some boot the process calls
\* emergency_reboot(reason) in place of running resume().
Emergency_Enter ==
    /\ pc = "resume"
    /\ pc' = "emergency_reboot"
    /\ \E reason \in Reasons : calls' = <<"emergency_reboot", reason>>
    /\ UNCHANGED <<emergencyFrame, cookie, result>>

NextBoots ==
    \/ Next
    \/ NextEmergency
    \/ Emergency_Enter
    \/ Reboot

SpecBoots == Init /\ [][NextBoots]_vars

\* ---------------------------------------------------------- properties
Terminal == pc \in {"returned", "resumed", "panicked"}

\* The calls the last step appended to the history.
NewCalls == SubSeq(calls', Len(calls) + 1, Len(calls'))

\* decide_to_resume has just run.
Decided == pc = "decide_to_resume" /\ pc' /= "decide_to_resume"

\* C1: atomic_restore is invoked only in a run whose decide_to_resume read
\* ResumeInProgress and returned Ok, and in which the sanitized identity of
\* the user who authenticated is the recorded hibernating user.
C1_RestoreOnlyForHibernatingUser ==
    Called("atomic_restore") =>
        /\ decide_in.cookie = "ResumeInProgress"
        /\ decide_result.ok
        /\ user_key \in AccountIds
        /\ current_user = sanitize_username(user_key)
        /\ current_user = hibernating_user

\* C1 witness: the image was launched for a user who logged in with another
\* spelling of the recorded account.
C1_Witness ==
    /\ pc = "resumed"
    /\ Called("atomic_restore")
    /\ user_key = "Alice"
    /\ hibernating_user = sanitize_username("alice")

C3_NoResumeWithoutPendingCookie ==
    [][(Decided /\ decide_in'.cookie \notin {"ResumeInProgress", "unread"} /\ ~dry_run) =>
        /\ ~decide_result'.ok
        /\ <<hiberimage, locked_down, snapdev_block, tpm_seed, hibernating_user>>'
             = <<hiberimage, locked_down, snapdev_block, tpm_seed, hibernating_user>>
        /\ NewCalls \in {<<"decide_to_resume">>,
                         <<"decide_to_resume", "set_hibernate_cookie(NoResume)">>}]_vars

\* C3 witness: decide_to_resume has refused an EmergencyReboot cookie.
C3_Witness ==
    /\ pc = "make_thinpool_rw"
    /\ decide_in.cookie = "EmergencyReboot"
    /\ ~dry_run
    /\ ~decide_result.ok
    /\ hiberimage = "existing"

\* C4: with the cookie at ResumeInProgress and the record equal to the
\* identity of the authenticating user, decide_to_resume returns Ok, sets
\* tried_to_resume and leaves the cookie at ResumeInProgress.
C4_MatchingUserResumes ==
    [][(Decided /\ decide_in'.cookie = "ResumeInProgress" /\ decide_in'.hib_ok
            /\ hibernating_user = current_user) =>
        /\ decide_result' = Ok
        /\ tried_to_resume'
        /\ cookie' = "ResumeInProgress"]_vars

\* C4 witness: the decision was positive for the recorded user.
C4_Witness ==
    /\ pc = "setup_snapshot_device"
    /\ decide_in.cookie = "ResumeInProgress"
    /\ hibernating_user = current_user
    /\ decide_result.ok
    /\ tried_to_resume
    /\ ~new_hiberimage

\* C5 (as claimed): with the cookie at ResumeInProgress and a record that
\* differs from the identity of the authenticating user, decide_to_resume
\* returns the user-mismatch error, the cookie is NoResume and
\* tried_to_resume is false, with and without dry_run.
C5_MismatchAlwaysResetsCookie ==
    [][(Decided /\ decide_in'.cookie = "ResumeInProgress" /\ decide_in'.hib_ok
            /\ hibernating_user /= current_user) =>
        /\ decide_result'.kind = "UserMismatchError"
        /\ cookie' = "NoResume"
        /\ ~tried_to_resume']_vars

\* C5 (amended): in that case tried_to_resume stays false and, when the
\* cookie write succeeds, decide_to_resume returns the user-mismatch error
\* (not the cookie error) and the cookie is NoResume; when the write fails it
\* returns the write error and the cookie stays ResumeInProgress.
C5_MismatchAborts ==
    [][(Decided /\ decide_in'.cookie = "ResumeInProgress" /\ decide_in'.hib_ok
            /\ hibernating_user /= current_user) =>
        /\ ~tried_to_resume'
        /\ ~decide_result'.ok
        /\ decide_result'.kind /= "CookieError"
        /\ IF decide_in'.write_ok
           THEN decide_result'.kind = "UserMismatchError" /\ cookie' = "NoResume"
           ELSE decide_result' = Err("Io", "set_hibernate_cookie")
                /\ cookie' = "ResumeInProgress"]_vars

\* C5 witness: a mismatch under dry_run reset the cookie.
C5_Witness ==
    /\ pc \in {"stop", "make_thinpool_rw"}
    /\ dry_run
    /\ decide_in.cookie = "ResumeInProgress"
    /\ decide_result.kind = "UserMismatchError"
    /\ hibernating_user /= current_user
    /\ cookie = "NoResume"
    /\ ~tried_to_resume

\* C6: the steps after the decision (snapshot device set up with the
\* existing image, image load, tombstone, freeze) happen only in a run whose
\* decision was positive on a ResumeInProgress cookie or under dry_run; for
\* any other cookie value decide_to_resume fails and none of them happens.
C6_ResumeOnlyWhenPendingOrDryRun ==
    /\ (\/ Called("setup_snapshot_device(existing)")
        \/ Called("load_image")
        \/ Called("set_hibernate_cookie(ResumeAborting)")
        \/ Called("freeze_userspace"))
       => (decide_result.ok /\ (decide_in.cookie = "ResumeInProgress" \/ dry_run))
    /\ (decide_in.cookie \notin {"ResumeInProgress", "unread"} /\ ~dry_run)
       => (~decide_result.ok /\ pc /= "resumed")

\* C6 witness: an image was loaded in a run that read ResumeInProgress.
C6_Witness ==
    /\ Called("load_image")
    /\ Called("freeze_userspace")
    /\ decide_in.cookie = "ResumeInProgress"
    /\ ~dry_run

\* C7 (as claimed): from a NoResume cookie without dry_run, once the user
\* authenticated no snapshot device is configured in the run, resume()
\* returns an error and the cookie is still NoResume.
C7_NoSnapshotDeviceForNoResume ==
    (boot_cookie = "NoResume" /\ ~opt_dry_run /\ Called("UserAuthenticated")
        /\ decide_in.cookie = "NoResume") =>
        /\ ~Called("setup_snapshot_device(new)")
        /\ ~Called("setup_snapshot_device(existing)")
        /\ ~Called("set_block_device")
        /\ cookie = "NoResume"
        /\ (pc = "returned" => ~ret.ok)

\* C7 (amended): in that run the snapshot device is never configured for
\* resuming (setup_snapshot_device with the existing image, load_image); it
\* is bound only to a new hiberimage, after the old one was torn down, for a
\* future hibernate; resume() returns an error and the cookie is still
\* NoResume.
C7_NoResumeSetupForNoResume ==
    (boot_cookie = "NoResume" /\ ~opt_dry_run /\ Called("UserAuthenticated")) =>
        /\ ~Called("setup_snapshot_device(existing)")
        /\ ~Called("load_image")
        /\ (Called("set_block_device") =>
                /\ Called("setup_snapshot_device(new)")
                /\ First("teardown_hiberimage") > 0
                /\ First("teardown_hiberimage") < First("set_block_device")
                /\ hiberimage = "new")
        /\ cookie = "NoResume"
        /\ pc \notin {"resumed", "panicked"}
        /\ (pc = "returned" => ~ret.ok)

\* C7 witness: the run ended with the cookie error and a snapshot device
\* bound to a new hiberimage.
C7_Witness ==
    /\ boot_cookie = "NoResume"
    /\ ~opt_dry_run
    /\ pc = "returned"
    /\ ret = Err("CookieError", "No resume pending")
    /\ Called("set_block_device")
    /\ snapdev_block = "hiberimage"

\* C8 (as claimed): cookie ResumeInProgress, matching user, dry_run, no
\* collaborator failing: the run loads the image, freezes userspace, never
\* calls atomic_restore and resume() returns Ok.
C8_DryRunReturnsOk ==
    (/\ boot_cookie = "ResumeInProgress"
     /\ opt_dry_run
     /\ decide_result.ok
     /\ Terminal
     /\ (pc = "returned" => ret.ok)) =>
        /\ pc = "returned"
        /\ ret = Ok
        /\ Called("load_image")
        /\ Called("freeze_userspace")
        /\ ~Called("atomic_restore")

\* C9 (as claimed): when decide_to_resume found a mismatching user on a
\* ResumeInProgress cookie, resume() returns the user-mismatch error and the
\* cookie reads NoResume afterwards.
C9_MismatchReturnedByResume ==
    (pc = "returned" /\ decide_result.kind = "UserMismatchError") =>
        /\ ret.kind = "UserMismatchError"
        /\ cookie = "NoResume"

\* C10 (as claimed): if decide_to_resume fails with error E, resume()
\* returns E whatever the teardown steps do.
C10_PrimaryErrorReturned ==
    (pc = "returned" /\ decide_result.kind /= "unset" /\ ~decide_result.ok) =>
        ret = decide_result

\* The preloader's worker thread was spawned in this run.
Preloading == Called("ImageDataPreloader::new")

\* resume_inner has returned.
InnerReturned == pc \in {"after_inner", "returned"}

\* C11: in a run where the AbortRequest event arrives after the preloader
\* was started, stop() signals a worker that is still running and joins it,
\* and only then resume_inner returns HibernateNotSupportedError; no
\* setup_snapshot_device and no binding of the snapshot device happens in
\* that run.
C11_AbortStopsPreloader ==
    /\ [](Called("AbortRequest") =>
            /\ ~Called("setup_snapshot_device(new)")
            /\ ~Called("setup_snapshot_device(existing)")
            /\ ~Called("set_block_device")
            /\ snapdev_block = "none")
    /\ []((Called("AbortRequest") /\ Preloading /\ InnerReturned) =>
            /\ result = Err("HibernateNotSupportedError", abort_reason)
            /\ joins = 1
            /\ WorkerEnded
            /\ handle = "None")
    /\ [][(pc = "stop" /\ stop_site = "abort" /\ pc' /= "stop") =>
            /\ pc' = "join"
            /\ ~WorkerEnded => chan' = 1]_vars

\* C11 witness: the abort cancelled a worker that had not reached its cap,
\* and resume_inner returned after the join.
C11_Witness ==
    /\ pc = "after_inner"
    /\ Called("AbortRequest")
    /\ result = Err("HibernateNotSupportedError", abort_reason)
    /\ joins = 1
    /\ w_result = "ok"
    /\ w_bytes < w_max

\* C12 (as claimed): on the resume path the worker has been joined before
\* setup_snapshot_device binds the snapshot device to the existing
\* hiberimage and before the SnapshotDevice is opened for load_image.
C12_JoinedBeforeSnapshotConfig ==
    Preloading =>
        /\ (Called("setup_snapshot_device(existing)") => joins = 1)
        /\ (Called("SnapshotDevice::new(Write)") => joins = 1)

\* C12 (amended): the worker has been joined before the SnapshotDevice is
\* opened for writing and load_image reads the image; the
\* setup_snapshot_device call for the existing image comes before that stop
\* and join.
C12_JoinedBeforeLoadImage ==
    (Called("SnapshotDevice::new(Write)") \/ Called("load_image")) =>
        /\ Preloading
        /\ joins = 1
        /\ WorkerEnded
        /\ First("setup_snapshot_device(existing)") > 0
        /\ First("setup_snapshot_device(existing)") < First("stop")
        /\ First("stop") < First("join")
        /\ First("join") < First("SnapshotDevice::new(Write)")

\* C12 witness: the image was loaded after the stop in resume_system
\* cancelled a worker that had run alongside setup_snapshot_device.
C12_Witness ==
    /\ Called("load_image")
    /\ Called("setup_snapshot_device(existing)")
    /\ snapdev_block = "hiberimage"
    /\ joins = 1
    /\ w_result = "ok"
    /\ w_bytes < w_max

\* C13 (as claimed): process memory is never locked while the worker is
\* still running: whenever the LockedProcessMemory token is alive in a run
\* that started the preloader, the worker has been joined.
C13_JoinedBeforeMemoryLocked ==
    (locked_memory /\ Preloading) => (joins = 1 /\ WorkerEnded)

\* The tombstone write was executed.
TombstoneTried == Called("set_hibernate_cookie(ResumeAborting)")

\* The tombstone write was executed and took effect.
TombstoneWritten == TombstoneTried /\ cookie = "ResumeAborting"

\* C14: the ResumeAborting tombstone is written only after load_image
\* succeeded and before freeze_userspace is called; when the write fails
\* resume_inner returns the write error, userspace is never frozen and
\* atomic_restore is never called.
C14_TombstoneBetweenLoadAndFreeze ==
    /\ [](TombstoneTried =>
            /\ First("load_image") > 0
            /\ calls[First("load_image") + 1] = "stats"
            /\ First("load_image") < First("set_hibernate_cookie(ResumeAborting)"))
    /\ []((Called("freeze_userspace") \/ Called("atomic_restore") \/ frozen) =>
            /\ TombstoneWritten
            /\ First("set_hibernate_cookie(ResumeAborting)") < First("freeze_userspace"))
    /\ []((TombstoneTried /\ ~TombstoneWritten) =>
            /\ InnerReturned
            /\ result = Err("Io", "set_hibernate_cookie"))
    /\ [][cookie' = "ResumeAborting" /\ cookie /= "ResumeAborting" =>
            /\ pc = "set_cookie_aborting"
            /\ pc' = "freeze_userspace"
            /\ ~Called("freeze_userspace")]_vars

\* C14 witness: the image was launched after load, tombstone and freeze.
C14_Witness ==
    /\ pc = "resumed"
    /\ TombstoneWritten
    /\ boot_cookie = "ResumeInProgress"
    /\ Called("freeze_userspace")
    /\ Called("atomic_restore")

\* C15: the first stop() joins the worker exactly once and returns Ok; a
\* later stop() on the same preloader does not panic, does not join again
\* and returns the "already stopped" error.
C15_SecondStopIsAnError ==
    /\ [](joins <= 1)
    /\ [](pc /= "panicked")
    /\ []((pc = "idle" /\ Count("stop") >= 1) => (joins = 1 /\ Count("join") = 1))
    /\ []((pc = "idle" /\ Count("stop") = 1) => result = Ok)
    /\ [][(pc = "idle" /\ handle = "None" /\ Count("stop")' > Count("stop")) =>
            /\ pc' = "idle"
            /\ result' = AlreadyStopped
            /\ joins' = joins]_vars

\* C15 witness: stop() was called twice; the second call returned the error
\* and the worker was joined once.
C15_Witness ==
    /\ pc = "idle"
    /\ Count("stop") = 2
    /\ joins = 1
    /\ result = AlreadyStopped

\* C16: once the preloader is started its cap is the smaller of the image
\* size and 33% of the RAM size (rounded down), and at every moment the
\* statistics, the worker's own count and every region it mapped stay
\* within that cap.
C16_PreloadWithinCap ==
    Preloading =>
        /\ w_max <= w_sizes.image_size
        /\ w_max * 100 <= w_sizes.ram_size * 33
        /\ (w_max = w_sizes.image_size \/ (w_max + 1) * 100 > w_sizes.ram_size * 33)
        /\ stats.bytes_preloaded <= w_max
        /\ w_bytes <= w_max
        /\ \A i \in 1..Len(w_regions) : w_regions[i][1] + w_regions[i][2] <= w_max

\* C16 witness: an image larger than a third of the RAM was preloaded up to
\* the cap, in two regions, and the statistics show the cap.
C16_Witness ==
    /\ Preloading
    /\ w_sizes.image_size > w_max
    /\ stats.bytes_preloaded = w_max
    /\ Len(w_regions) = 2
    /\ w_regions[2][2] < max_region_size

\* C17 (as claimed): when the worker ended with an I/O error or a panic, the
\* first stop() joins it and returns Ok, and the conductor goes on as it
\* does after a successful worker: the worker's end never makes resume fail
\* with the stop error or panic.
C17_WorkerFailureHarmless ==
    (w_result \in {"err", "panic"} /\ joins = 1) =>
        /\ handle = "None"
        /\ result /= AlreadyStopped
        /\ pc /= "panicked"

\* setup_snapshot_device has just run (with its call of
\* get_tpm_derived_integrity_key).
KeyRetrieved == pc = "setup_snapshot_device" /\ pc' /= "setup_snapshot_device"

\* C18: key material reaches setup_hiberimage only when the seed file holds
\* exactly TPM_SEED_SIZE bytes; for a file of any other length
\* setup_snapshot_device fails without calling setup_hiberimage, and with
\* the key-retrieval error whenever the file was opened, unlinked and read.
C18_KeyOnlyFromFullSeed ==
    [][KeyRetrieved =>
        LET key_passed == \E i \in 1..Len(NewCalls) : NewCalls[i] = "setup_hiberimage"
        IN  /\ key_passed => (tpm_seed = TPM_SEED_SIZE /\ tpm_key' = TPM_SEED_SIZE)
            /\ tpm_seed \notin {-1, TPM_SEED_SIZE} =>
                /\ ~key_passed
                /\ tpm_key' = tpm_key
                /\ pc' = "after_inner"
                /\ ~result'.ok
                /\ result'.origin \in {"File::open", "remove_file", "read_to_end",
                                       "get_tpm_derived_integrity_key"}
                /\ (tpm_seed' = -1 /\ result'.origin /= "read_to_end") =>
                        result'.kind = "KeyRetrievalError"]_vars

\* C18 witness: a seed file of a wrong length was read and rejected.
C18_Witness ==
    /\ pc = "after_inner"
    /\ result = Err("KeyRetrievalError", "get_tpm_derived_integrity_key")
    /\ tpm_seed = -1
    /\ tpm_key = -1
    /\ ~Called("setup_hiberimage")

\* C19 (as claimed; the failing unlink, after which the file is necessarily
\* still there, left aside): after a key-retrieval attempt, successful or
\* not, the TPM seed file no longer exists.
C19_SeedFileGoneAfterAttempt ==
    (Called("get_tpm_derived_integrity_key") /\ result /= Err("Io", "remove_file")) =>
        tpm_seed = -1

\* C20: the memory lock lives only inside resume_inner, and when resume()
\* returns the process memory is not locked and the pending merge is not
\* held any more: once PendingStatefulMerge::new succeeded the merge was
\* triggered, also on the early return after a failed hibermeta mount.
C20_ReleasedOnReturn ==
    /\ locked_memory => ~InnerReturned
    /\ pc = "returned" =>
        /\ ~locked_memory
        /\ pending_merge /= "held"
        /\ Called("redirect_log(BufferInMemory)") => pending_merge = "merged"

\* C20 witness: resume() returned early because the hibermeta mount failed,
\* in a run that had locked the memory; the merge was triggered.
C20_Witness ==
    /\ pc = "returned"
    /\ Called("setup_hibermeta_lv(false)")
    /\ ~Called("replay_logs")
    /\ pending_merge = "merged"
    /\ ~locked_memory

\* resume_inner was called in this run.
InnerCalled == Called("redirect_log(BufferInMemory)")

\* The hibermeta mount of resume.rs:133 failed.
ExitMountFailed ==
    \/ ret = Err("Io", "setup_hibermeta_lv(true)")
    \/ Called("error!(setup_hibermeta_lv)")

\* C21 (as claimed): whatever resume_inner returned, the buffered logs are
\* replayed and the metrics are read and sent before resume() returns.
C21_AlwaysReplayAndMetrics ==
    (pc = "returned" /\ InnerCalled) =>
        /\ Called("replay_logs")
        /\ Called("read_and_send_metrics")

\* C21 (amended): whatever resume_inner returned, resume() redirects the
\* logs to syslog and mounts hibermeta; when that mount succeeds the logs are
\* replayed and then the metrics are read and sent before resume() returns;
\* when it fails resume() returns at once, without replay and metrics.
C21_ReplayAndMetricsIfMounted ==
    (pc = "returned" /\ InnerCalled) =>
        /\ Called("redirect_log(Syslog)")
        /\ First("redirect_log(Syslog)") < First("setup_hibermeta_lv(true)")
        /\ IF ExitMountFailed
           THEN ~Called("replay_logs") /\ ~Called("read_and_send_metrics")
           ELSE /\ Called("replay_logs")
                /\ First("setup_hibermeta_lv(true)") < First("replay_logs")
                /\ First("replay_logs") < First("read_and_send_metrics")
                /\ calls[Len(calls)] = "read_and_send_metrics"
                /\ ret = result

\* C21 witness: resume_inner failed late (atomic_restore returned) and the
\* logs and metrics were handled on the way out.
C21_Witness ==
    /\ pc = "returned"
    /\ ret = Err("SnapshotIoctlError", "atomic_restore")
    /\ Called("replay_logs")
    /\ Called("read_and_send_metrics")

\* C22 (as claimed): on a boot that found the cookie at EmergencyReboot,
\* the cookie is NoResume when resume() returns, whichever event arrived.
C22_EmergencyAlwaysCleared ==
    (/\ boot_cookie = "EmergencyReboot"
     /\ pc = "returned"
     /\ (Called("UserAuthenticated") \/ Called("AbortRequest"))) => cookie = "NoResume"

\* C22 (amended): on such a boot, when the user authenticated and
\* decide_to_resume read the cookie without dry_run, the write of NoResume
\* was attempted and the cookie is NoResume when resume() returns unless
\* that write failed; in every other run (AbortRequest, a failure before
\* the decision, dry_run, a failed cookie read) the cookie is still
\* EmergencyReboot.
C22_EmergencyClearedByDecision ==
    (boot_cookie = "EmergencyReboot" /\ pc = "returned") =>
        IF decide_in.cookie = "EmergencyReboot" /\ ~dry_run
        THEN /\ Called("UserAuthenticated")
             /\ Called("set_hibernate_cookie(NoResume)")
             /\ \/ cookie = "NoResume"
                \/ (cookie = "EmergencyReboot"
                        /\ decide_result = Err("Io", "set_hibernate_cookie"))
        ELSE cookie = "EmergencyReboot"

\* C22 witness: the user authenticated on an EmergencyReboot boot and
\* resume() returned with the cookie cleared.
C22_Witness ==
    /\ boot_cookie = "EmergencyReboot"
    /\ pc = "returned"
    /\ Called("UserAuthenticated")
    /\ cookie = "NoResume"
    /\ ret.kind = "CookieError"

\* C23 (as claimed): emergency_reboot attempts the cookie write and goes on
\* when it fails, then redirects the logs, then runs the reboot command, and
\* in every case leaves through exit(9) and through no other exit.
C23_EmergencyRebootExits9 ==
    /\ pc /= "panicked"
    /\ Called("redirect_log(BufferInMemory)") =>
            First("set_hibernate_cookie(EmergencyReboot)") < First("redirect_log(BufferInMemory)")
    /\ Called("reboot_system") =>
            First("redirect_log(BufferInMemory)") < First("reboot_system")
    /\ pc = "exited(9)" => calls[Len(calls) - 1] = "reboot_system"

\* decide_to_resume has just read an abnormal cookie without dry_run.
DecidedAbnormal ==
    Decided /\ decide_in'.cookie \in {"EmergencyReboot", "ResumeAborting"} /\ ~dry_run

\* C24 (as claimed): for a cookie read as EmergencyReboot or ResumeAborting
\* without dry_run, decide_to_resume returns a cookie error, leaves
\* tried_to_resume false, and the cookie is NoResume afterwards exactly when
\* it was EmergencyReboot, a ResumeAborting cookie being unchanged.
C24_AbnormalCookieError ==
    [][DecidedAbnormal =>
        /\ decide_result'.kind = "CookieError"
        /\ ~tried_to_resume'
        /\ cookie' = IF cookie = "EmergencyReboot" THEN "NoResume" ELSE cookie]_vars

\* C24 (amended): in that case decide_to_resume returns an error and leaves
\* tried_to_resume false; for ResumeAborting it writes nothing and returns
\* the cookie error; for EmergencyReboot it writes NoResume and returns the
\* cookie error, unless the write fails: then it returns the write error
\* and the cookie stays EmergencyReboot.
C24_AbnormalCookieAborts ==
    [][DecidedAbnormal =>
        /\ ~decide_result'.ok
        /\ ~tried_to_resume'
        /\ IF cookie = "EmergencyReboot"
           THEN /\ NewCalls = <<"decide_to_resume", "set_hibernate_cookie(NoResume)">>
                /\ \/ (cookie' = "NoResume" /\ decide_result'.kind = "CookieError")
                   \/ (cookie' = "EmergencyReboot"
                            /\ decide_result' = Err("Io", "set_hibernate_cookie"))
           ELSE /\ NewCalls = <<"decide_to_resume">>
                /\ cookie' = "ResumeAborting"
                /\ decide_result'.kind = "CookieError"]_vars

\* C24 witness: a ResumeAborting cookie was refused and left in place.
C24_Witness ==
    /\ decide_in.cookie = "ResumeAborting"
    /\ ~dry_run
    /\ decide_result.kind = "CookieError"
    /\ cookie = "ResumeAborting"
    /\ ~tried_to_resume
    /\ pc = "make_thinpool_rw"

\* C25 (as claimed): a boot that finds the cookie at ResumeAborting is
\* treated like one that finds ResumeInProgress: is_resume_pending answers
\* true, so the preload is set up, and decide_to_resume does not refuse the
\* cookie.
C25_AbortingTreatedAsInProgress ==
    decide_in.cookie = "ResumeAborting" =>
        /\ Called("setup_hiberimage_buffer_device")
        /\ decide_result.kind /= "CookieError"

\* C26 (as claimed): with dry_run set and a cookie other than
\* ResumeInProgress, decide_to_resume returns Ok without reading the
\* hibernating-user record, writing the cookie or setting tried_to_resume,
\* and resume() then goes through the resume sequence without a fault.
C26_DryRunAnyCookieResumes ==
    (dry_run /\ decide_in.cookie \in {"NoResume", "ResumeAborting", "EmergencyReboot"}) =>
        /\ decide_result = Ok
        /\ ~tried_to_resume
        /\ ~decide_in.hib_ok
        /\ ~Called("set_hibernate_cookie(NoResume)")
        /\ pc /= "panicked"

\* C27: once stop() has put the signal in the channel, the worker's next
\* loop check takes it and leaves the loop without mapping another region,
\* whatever bytes_preloaded is; the send never blocks (stop() can always be
\* entered and goes on to the join); and under a fair scheduler every
\* stop() that waits in the join returns, whether the worker ended before
\* or after the call.
C27_StopAlwaysReturns ==
    /\ [][(chan > 0 /\ w_pc = "check" /\ w_pc' /= "check")
            => (w_pc' = "finish" /\ w_regions' = w_regions /\ chan' = 0)]_vars
    /\ []((pc = "idle" /\ Count("stop") < MaxStops) => ENABLED Api_Stop)
    /\ (pc = "join" ~> (pc = "idle" /\ result = Ok /\ WorkerEnded))

\* C27 witness: stop() returned after a worker that was cancelled below
\* its cap.
C27_Witness ==
    /\ pc = "idle"
    /\ joins = 1
    /\ result = Ok
    /\ WorkerEnded
    /\ w_result \in {"ok", "panic"}
    /\ Len(w_regions) >= 1
    /\ w_bytes < w_max

\* The regions mapped so far lie end to end from offset 0, each of them
\* non-empty and at most max_region_size long.
ConsecutiveRegions(rs) ==
    \A i \in 1..Len(rs) :
        /\ rs[i][2] \in 1..max_region_size
        /\ rs[i][1] = IF i = 1 THEN 0 ELSE rs[i - 1][1] + rs[i - 1][2]

\* C28 (as claimed): for every max_preload_bytes, 0 included, a worker that
\* is not cancelled fails only on an I/O error of the device, never on the
\* region it asks for; the regions it maps are consecutive from offset 0
\* and at most 128 MiB each, and when it leaves the loop after a mapping it
\* has preloaded exactly max_preload_bytes.
C28_ExactConsecutivePreload ==
    [][/\ ConsecutiveRegions(w_regions')
       /\ (w_pc = "map" /\ w_pc' = "finish") => w_bytes' = w_max
       /\ (w_pc = "map" /\ w_pc' = "done") => w_region > 0]_vars

\* C29 (as claimed): a worker that left its loop stores bytes_preloaded
\* and the throughput without a fault, whatever the elapsed time, and the
\* stats mutex stays usable.
C29_StatsStepNeverFaults ==
    (w_pc = "done" /\ w_result /= "err") =>
        /\ w_result = "ok"
        /\ ~poisoned
        /\ stats.bytes_preloaded = w_bytes

\* The total size of a sequence of mapped regions.
RECURSIVE RegionBytes(_)
RegionBytes(rs) == IF rs = <<>> THEN 0 ELSE rs[1][2] + RegionBytes(Tail(rs))

\* C30 (as claimed): after stop() has returned from the join of a worker
\* that ended by reaching the cap, by cancellation or by an I/O error, the
\* statistics show the total size of the regions the worker mapped.
C30_StatsCountMappedRegions ==
    (joins = 1 /\ w_result \in {"ok", "err"}) =>
        stats.bytes_preloaded = RegionBytes(w_regions)

\* decide_to_resume returned an error: resume_inner is on its no-resume path.
DecideFailed == Called("decide_to_resume") /\ ~decide_result.ok

\* C31: after decide_to_resume failed, the steps of the no-resume path are
\* taken in the order stop and join of the preloader (when one was
\* started), make_thinpool_rw, teardown_hiberimage, setup_snapshot_device
\* with a new hiberimage and the user's key, lockdown_hiberimage,
\* record_hibernating_user, return of the error, each only after the one
\* before it succeeded; the volumes are never removed under a running
\* worker and the record is never written before the lockdown.
C31_TeardownInOrder ==
    DecideFailed =>
        /\ ~Called("setup_snapshot_device(existing)")
        /\ Called("make_thinpool_rw") =>
                /\ First("decide_to_resume") < First("make_thinpool_rw")
                /\ Preloading => /\ joins = 1
                                 /\ WorkerEnded
                                 /\ First("decide_to_resume") < First("stop")
                                 /\ First("stop") < First("join")
                                 /\ First("join") < First("make_thinpool_rw")
        /\ Called("teardown_hiberimage") =>
                /\ 0 < First("make_thinpool_rw")
                /\ First("make_thinpool_rw") < First("teardown_hiberimage")
        /\ Called("setup_snapshot_device(new)") =>
                /\ 0 < First("teardown_hiberimage")
                /\ First("teardown_hiberimage") < First("setup_snapshot_device(new)")
                /\ hiberimage \in {"none", "new"}
                /\ user_key /= "none"
        /\ Called("lockdown_hiberimage") =>
                /\ 0 < First("setup_snapshot_device(new)")
                /\ First("setup_snapshot_device(new)") < First("lockdown_hiberimage")
                /\ hiberimage = "new"
                /\ snapdev_block = "hiberimage"
        /\ Called("record_hibernating_user") =>
                /\ 0 < First("lockdown_hiberimage")
                /\ First("lockdown_hiberimage") < First("record_hibernating_user")
                /\ locked_down
        /\ (InnerReturned /\ result = decide_result) =>
                /\ Called("record_hibernating_user")
                /\ hibernating_user = current_user

\* C31 witness: the whole no-resume path ran after a worker was cancelled
\* and joined, and the decision's error was returned.
C31_Witness ==
    /\ DecideFailed
    /\ Preloading
    /\ joins = 1
    /\ InnerReturned
    /\ result = decide_result
    /\ Called("record_hibernating_user")
    /\ locked_down
    /\ hiberimage = "new"

\* The system is armed for a future hibernate of the user who just
\* authenticated: a new hiberimage bound to the snapshot device and locked
\* down, and a record holding the digest of the lower-cased account id.
Armed ==
    /\ hiberimage = "new"
    /\ snapdev_block = "hiberimage"
    /\ locked_down
    /\ hibernating_user = Sha256Hex(to_lowercase(user_key))
    /\ hibernating_user \notin AccountIds

SuccessSteps ==
    <<"decide_to_resume", "log_event(ResumeAttempt)", "setup_snapshot_device(existing)",
      "lockdown_hiberimage", "lock_process_memory", "setup_hibermeta_lv(false)",
      "PowerdPendingResume::new", "stop", "load_image", "wait_for_hibernate_resume_ready",
      "set_hibernate_cookie(ResumeAborting)", "freeze_userspace", "metrics_flush", "sync">>

\* C33: after decide_to_resume returned Ok the steps occur in the order
\* ResumeAttempt metric, setup_snapshot_device for the existing image,
\* lockdown, memory lock, hibermeta mount, powerd call, stop of the
\* preloader, load_image, wait for resume-ready, tombstone, freeze, metrics
\* flush, sync, each only after the one before it was executed and
\* succeeded; atomic_restore comes after all of them, never under dry_run,
\* and with userspace frozen and process memory locked.
C33_SuccessPathInOrder ==
    /\ decide_result.ok =>
            \A i \in 2..Len(SuccessSteps) :
                Called(SuccessSteps[i]) =>
                    /\ 0 < First(SuccessSteps[i - 1])
                    /\ First(SuccessSteps[i - 1]) < First(SuccessSteps[i])
    /\ \A i \in 2..Len(SuccessSteps) :
            (Called(SuccessSteps[i]) /\ ~Called("decide_to_resume")) => SuccessSteps[i] = "stop"
    /\ Called("lock_process_memory") => (locked_down /\ snapdev_block = "hiberimage")
    /\ Called("load_image") => joins = 1
    /\ Called("freeze_userspace") => cookie = "ResumeAborting"
    /\ Called("atomic_restore") =>
            /\ decide_result.ok
            /\ ~dry_run
            /\ 0 < First("sync")
            /\ First("sync") < First("atomic_restore")
            /\ pc = "resumed" \/ InnerReturned
    /\ pc \in {"launch", "resumed"} => (frozen /\ locked_memory /\ Called("sync"))
    /\ Called("dry_run: not launching") => (dry_run /\ Called("sync"))

\* C33 witness: a run that went through every step and launched the image.
C33_Witness ==
    /\ pc = "resumed"
    /\ \A i \in 1..Len(SuccessSteps) : Called(SuccessSteps[i])
    /\ Called("atomic_restore")
    /\ frozen
    /\ locked_memory

\* The worker thread exists and has not ended.
WorkerRunning == w_pc \in {"open", "check", "map", "finish"}

\* C34 (as claimed): the preloader is created at most once in a run and
\* only on a boot whose cookie is ResumeInProgress, and its worker runs
\* only while the conductor is between the creation and the stop() that
\* joins it: it is never still running once resume_inner has returned.
C34_OneWorkerInsideItsWindow ==
    /\ Count("ImageDataPreloader::new") <= 1
    /\ Preloading => boot_cookie = "ResumeInProgress"
    /\ WorkerRunning => (Preloading /\ joins = 0 /\ ~InnerReturned)

\* C35 (as claimed): when resume() returns, on any path, every worker
\* that was started has been signalled and joined and none is running.
C35_NoWorkerLeftAtReturn ==
    pc = "returned" =>
        /\ ~WorkerRunning
        /\ Preloading => (Called("stop") /\ joins = 1)

\* C36 (as claimed): whenever the conductor is in resume_system before its
\* stop of the preloader, image_preloader is Some, and the take().unwrap()
\* of that step never panics.
C36_PreloaderPresentInResumeSystem ==
    /\ pc = "resume_system" => image_preloader = "Some"
    /\ Called("image_preloader.take().unwrap()") => (Preloading /\ (handle = "Some" \/ Called("stop")))

\* C37 (as claimed): when decide_to_resume read ResumeInProgress and
\* failed, and the no-resume path removed the hiberimage and created a new
\* one, the cookie is not ResumeInProgress when resume() returns.
C37_NoPendingCookieOverNewImage ==
    (/\ pc = "returned"
     /\ decide_in.cookie = "ResumeInProgress"
     /\ Called("teardown_hiberimage")
     /\ hiberimage = "new") =>
        cookie /= "ResumeInProgress"

\* C38 (as claimed): ResumeFailure is logged exactly in the runs that set
\* tried_to_resume, that is after the identity gate was passed with a
\* ResumeInProgress cookie, and only in runs where resume() returns an
\* error: never in a run that returns Ok(()).
C38_ResumeFailureOnlyOnError ==
    /\ Called("log_event(ResumeFailure)") =>
            /\ tried_to_resume
            /\ decide_in.cookie = "ResumeInProgress"
            /\ decide_result.ok
            /\ pc = "returned" => ~ret.ok
    /\ (pc = "returned" /\ tried_to_resume) => Called("log_event(ResumeFailure)")

\* C39: once the AbortRequest event was received, no step of the run
\* changes the cookie, the hibernating-user record, the seed file, the
\* hiberimage or the snapshot device; the cookie has the value the boot
\* found, current_user is unset and tried_to_resume is false; and
\* resume_inner returns HibernateNotSupportedError with the reason the
\* event carried.
C39_AbortChangesNothing ==
    /\ [](Called("AbortRequest") =>
            /\ cookie = boot_cookie
            /\ current_user = "None"
            /\ ~tried_to_resume
            /\ user_key = "none"
            /\ ~Called("decide_to_resume")
            /\ abort_reason \in AbortReasons
            /\ InnerReturned => result = Err("HibernateNotSupportedError", abort_reason))
    /\ [][Called("AbortRequest")' =>
            <<cookie, hibernating_user, tpm_seed, hiberimage, locked_down, snapdev_block>>'
                = <<cookie, hibernating_user, tpm_seed, hiberimage, locked_down, snapdev_block>>]_vars

\* C39 witness: an AbortRequest on a boot with a pending resume: the error
\* carries the reason and the cookie is still ResumeInProgress.
C39_Witness ==
    /\ Called("AbortRequest")
    /\ pc = "returned"
    /\ result = Err("HibernateNotSupportedError", "user logged out")
    /\ cookie = "ResumeInProgress"
    /\ joins = 1

\* A step that changes the cookie writes NoResume from decide_to_resume
\* (user mismatch, clearing of EmergencyReboot), ResumeAborting as the
\* tombstone of a run whose decision read ResumeInProgress or ran under
\* dry_run, or EmergencyReboot from emergency_reboot; never ResumeInProgress.
CookieWritesOnly ==
    cookie' /= cookie =>
        /\ cookie' /= "ResumeInProgress"
        /\ cookie' = "NoResume" =>
                /\ pc = "decide_to_resume"
                /\ cookie \in {"ResumeInProgress", "EmergencyReboot"}
        /\ cookie' = "ResumeAborting" =>
                /\ pc = "set_cookie_aborting"
                /\ decide_in.cookie = "ResumeInProgress" \/ dry_run
        /\ cookie' = "EmergencyReboot" => pc = "emergency_reboot"

\* C40 (as claimed): over any sequence of boots the resume path writes
\* only those cookie values, so a cookie that left ResumeInProgress never
\* returns to it, and a boot that does not find ResumeInProgress never
\* attempts a resume.
C40_NoLaterBootResumes ==
    /\ [][CookieWritesOnly]_vars
    /\ [](boot_cookie /= "ResumeInProgress" =>
            /\ ~Called("log_event(ResumeAttempt)")
            /\ ~Called("setup_snapshot_device(existing)"))

\* C40 (amended): over any sequence of boots the resume path writes only
\* those cookie values, so a cookie that left ResumeInProgress never
\* returns to it, and a boot that does not find ResumeInProgress attempts
\* a resume only under the dry-run override; it never sets
\* tried_to_resume and never calls atomic_restore.
C40_NoLaterBootResumesUnlessDryRun ==
    /\ [][CookieWritesOnly]_vars
    /\ [][cookie /= "ResumeInProgress" => cookie' /= "ResumeInProgress"]_vars
    /\ [](boot_cookie /= "ResumeInProgress" =>
            /\ cookie /= "ResumeInProgress"
            /\ ~tried_to_resume
            /\ ~Called("atomic_restore")
            /\ pc /= "resumed"
            /\ Called("log_event(ResumeAttempt)") => dry_run
            /\ Called("setup_snapshot_device(existing)") => dry_run)

\* C40 witness: a later boot (the hiberimage was recreated by an earlier
\* one) finds the cookie at NoResume and refuses to resume.
C40_Witness ==
    /\ hiberimage = "new"
    /\ ~Called("teardown_hiberimage")
    /\ boot_cookie = "NoResume"
    /\ ~dry_run
    /\ decide_result = Err("CookieError", "No resume pending")
    /\ pc = "make_thinpool_rw"

====
